---- MODULE Spec2Model ----
(***************************************************************************)
(* Segregated-storage pool of pycpp/allocator: the free list threaded      *)
(* through the free chunks (segregated_storage), the block list threaded   *)
(* through the block trailers (pod_ptr) and the pool operations on top of  *)
(* them.  Memory is one map from byte addresses to the words the pool has   *)
(* written; words owned by a caller or returned to the system allocator    *)
(* are not in the map.                                                     *)
(***************************************************************************)
EXTENDS Integers, Sequences, FiniteSets, TLC

\* ------------------------------------------------------------------------
\* Bounds of the model
\* ------------------------------------------------------------------------
\* number of min_align-sized words the system allocator can hand out
ArenaWords == 7
\* largest n passed to ordered_allocate(n)
MaxN == 2
\* largest initial next_size given to the constructor
MaxStart == 1
\* width of size_type in bits (scaled down from 64)
SizeBits == 16
\* words of the arena in the runs in which every request is served
ServedWords == 30
\* in the runs of the pools with larger blocks: words of the arena beyond
\* the first block of the pool, and largest n passed to ordered_allocate(n)
SizedSlack == 1
MaxRun == 3
\* number of pool_allocator objects
MaxHandles == 2
\* number of threads that call a singleton_pool, and of singleton pools
MaxThreads == 2
MaxTags == 2
\* largest size of a block handed to segregate on its own
MaxSeg == 40
\* words of the arena in the runs that follow release_memory block by block
SweepWords == 9

\* ------------------------------------------------------------------------
\* Platform constants
\* ------------------------------------------------------------------------
sizeof_void_pointer == 8
sizeof_size_type == 8
alignof_void_pointer == 8
alignof_size_type == 8

NULL == 0
\* stands for &first_, the address allocate_n starts its walk from
HeadRef == 0 - 1

RECURSIVE gcd(_, _)
gcd(a, b) == IF b = 0 THEN a ELSE gcd(b, a % b)

lcm(a, b) == (a * b) \div gcd(a, b)

min_alloc_size == lcm(sizeof_void_pointer, sizeof_size_type)
min_align == lcm(alignof_void_pointer, alignof_size_type)

SizeMod == 2 ^ SizeBits
\* arithmetic of size_type
Wrap(x) == x % SizeMod

Max(a, b) == IF a > b THEN a ELSE b
Min(a, b) == IF a < b THEN a ELSE b

\* the pools that are modelled: the template parameter RequestedSize and the
\* max_size argument of the constructor
PoolParams == {<<8, 0>>, <<4, 3>>}

\* the pools of the runs in which every request is served: RequestedSize
\* and the next_size argument of the constructor (max_size is 0)
ServedParams == {<<16, 4>>, <<16, 1>>, <<8, 1>>, <<8, 2>>}

\* the pools with larger blocks: RequestedSize, next_size and max_size
SizedParams == {<<8, 2, 1>>, <<8, 5, 0>>, <<16, 16, 0>>}

\* the pools on which ordered_allocate(n) is called
RunParams == {<<8, 3, 0>>, <<8, 8, 0>>, <<4, 1, 0>>}
HoleParams == {<<8, 5, 0>>, <<16, 4, 0>>}

ArenaBase == min_align

VARIABLES
    requested_size,  \* template parameter RequestedSize
    start_size_,
    max_size_,
    next_size_,
    first_,          \* head of the free list
    list_,           \* head of the block list, a pod_ptr
    mem,             \* the words written by the pool, by address
    sys,             \* blocks the system allocator has handed out
    held,            \* regions the callers hold
    last,            \* the last call: name, arguments, result, system calls
    arena,           \* number of words the system allocator can hand out
    facade,          \* the class the pool is used through
    handles,         \* pool_allocator objects: the pool each one refers to
    parked,          \* members of the pools that are not being operated on
    cur,             \* the pool the members above belong to (0: none)
    pc,              \* threads: where each one is in its singleton_pool call
    tagof,           \* threads: the singleton_pool its call is made on
    frame,           \* threads: the call, its argument and its locals
    initalized,      \* singleton pools: the flag of get_pool
    mu,              \* singleton pools: the thread that holds the mutex (0: none)
    built,           \* singleton pools: number of constructions of the pool
    pending          \* arguments of a call made on segregated_storage alone

vars == <<requested_size, start_size_, max_size_, next_size_, first_, list_,
          mem, sys, held, last, arena, facade, handles, parked, cur, pc,
          tagof, frame, initalized, mu, built, pending>>

ArenaEnd == ArenaBase + arena * min_align
ArenaAddrs == {ArenaBase + i * min_align : i \in 0 .. (arena - 1)}

\* ------------------------------------------------------------------------
\* Memory
\* ------------------------------------------------------------------------
Store(m, a, v) == [x \in (DOMAIN m) \cup {a} |-> IF x = a THEN v ELSE m[x]]

Drop(m, S) == [x \in (DOMAIN m) \ S |-> m[x]]

fast_ceil_division(numerator, denominator) ==
    (numerator \div denominator)
        + (IF numerator % denominator # 0 THEN 1 ELSE 0)

\* ------------------------------------------------------------------------
\* pod_ptr: a block and its trailer
\* ------------------------------------------------------------------------
pod_ptr(ptr, size) == [ptr |-> ptr, sz |-> size]

pod_null == pod_ptr(NULL, 0)

valid(p) == p.ptr # NULL

total_size(p) == p.sz

element_size(p) == Wrap(p.sz - sizeof_size_type - min_alloc_size)

ptr_next_size(p) == p.ptr + p.sz - sizeof_size_type

ptr_next_ptr(p) == ptr_next_size(p) - min_alloc_size

\* end() that takes the size field of the trailer for the end of the chunks
pod_end_size_field(p) == ptr_next_size(p)

pod_end(p) == ptr_next_ptr(p)

pod_next(m, p) == pod_ptr(m[ptr_next_ptr(p)], m[ptr_next_size(p)])

pod_set_next(m, p, x) ==
    Store(Store(m, ptr_next_ptr(p), x.ptr), ptr_next_size(p), total_size(x))

\* ------------------------------------------------------------------------
\* segregated_storage
\* ------------------------------------------------------------------------
nextof(m, first, p) == IF p = HeadRef THEN first ELSE m[p]

\* segregate that takes sz / partition_sz for the index of the last chunk
segregate_one_more(m, block, sz, partition_sz, end) ==
    LET shift == (sz \div partition_sz) * partition_sz
        old == block + shift
        written == {block + i * partition_sz :
                        i \in 0 .. (shift \div partition_sz)}
    IN  [a \in (DOMAIN m) \cup written |->
            IF a = old THEN end
            ELSE IF a \in written THEN a + partition_sz
            ELSE m[a]]

\* the chunk at block + i * partition_sz points to the following one, the
\* last whole chunk points to end
segregate(m, block, sz, partition_sz, end) ==
    LET shift == (Wrap(sz - partition_sz) \div partition_sz) * partition_sz
        old == block + shift
        written == {block + i * partition_sz :
                        i \in 0 .. (shift \div partition_sz)}
    IN  [a \in (DOMAIN m) \cup written |->
            IF a = old THEN end
            ELSE IF a \in written THEN a + partition_sz
            ELSE m[a]]

\* the for loop of segregate: iter runs backwards from the chunk before the
\* last one down to block
RECURSIVE segregate_for(_, _, _, _, _)
segregate_for(m, iter, old, block, partition_sz) ==
    IF iter = block
    THEN [mem |-> m, old |-> old]
    ELSE segregate_for(Store(m, iter, old), iter - partition_sz, iter, block,
                       partition_sz)

\* a shift that is not taken back by one chunk
segregate_stmts_no_back(m, block, sz, partition_sz, end) ==
    LET shift == (sz \div partition_sz) * partition_sz
        old == block + shift
        m1 == Store(m, old, end)
    IN  IF old = block
        THEN [ret |-> block, mem |-> m1]
        ELSE LET r == segregate_for(m1, old - partition_sz, old, block,
                                    partition_sz)
             IN  [ret |-> block, mem |-> Store(r.mem, block, r.old)]

\* segregate, statement by statement
segregate_stmts(m, block, sz, partition_sz, end) ==
    LET shift == (Wrap(sz - partition_sz) \div partition_sz) * partition_sz
        old == block + shift
        m1 == Store(m, old, end)
    IN  IF old = block
        THEN [ret |-> block, mem |-> m1]
        ELSE LET r == segregate_for(m1, old - partition_sz, old, block,
                                    partition_sz)
             IN  [ret |-> block, mem |-> Store(r.mem, block, r.old)]

RECURSIVE find_prev_loop(_, _, _)
find_prev_loop(m, iter, ptr) ==
    IF m[iter] = NULL \/ m[iter] > ptr
    THEN iter
    ELSE find_prev_loop(m, m[iter], ptr)

find_prev(m, first, ptr) ==
    IF first = NULL \/ first > ptr
    THEN NULL
    ELSE find_prev_loop(m, first, ptr)

add_block(m, first, block, nsz, npartition_sz) ==
    [mem |-> segregate(m, block, nsz, npartition_sz, first), first |-> block]

\* an ordered insertion that puts the block at the head of the free list
add_ordered_block_at_head(m, first, block, nsz, npartition_sz) ==
    add_block(m, first, block, nsz, npartition_sz)

add_ordered_block(m, first, block, nsz, npartition_sz) ==
    LET loc == find_prev(m, first, block)
    IN  IF loc = NULL
        THEN add_block(m, first, block, nsz, npartition_sz)
        ELSE [mem |-> Store(segregate(m, block, nsz, npartition_sz, m[loc]),
                            loc, block),
              first |-> first]

\* allocate that does not advance first_
store_allocate_no_pop(m, first) ==
    [ret |-> first, mem |-> m, first |-> first]

\* segregated_storage::allocate; the word of the chunk goes to the caller
store_allocate(m, first) ==
    [ret |-> first, mem |-> Drop(m, {first}), first |-> m[first]]

\* deallocate that does not make the chunk the head
store_deallocate_no_head(m, first, chunk) ==
    [mem |-> Store(m, chunk, first), first |-> first]

store_deallocate(m, first, chunk) ==
    [mem |-> Store(m, chunk, first), first |-> chunk]

\* ordered_deallocate that does not look for the place of the chunk
store_ordered_deallocate_front(m, first, chunk) ==
    store_deallocate(m, first, chunk)

store_ordered_deallocate(m, first, chunk) ==
    LET loc == find_prev(m, first, chunk)
    IN  IF loc = NULL
        THEN store_deallocate(m, first, chunk)
        ELSE [mem |-> Store(Store(m, chunk, m[loc]), loc, chunk),
              first |-> first]

\* a search that takes n entries of the list wherever they lie
RECURSIVE try_allocate_n_loop_any(_, _, _, _, _)
try_allocate_n_loop_any(m, start, iter, n, partition_size) ==
    IF Wrap(n - 1) = 0
    THEN [iter |-> iter, start |-> start]
    ELSE LET next == m[iter]
         IN  IF next = NULL
             THEN [iter |-> NULL, start |-> iter]
             ELSE try_allocate_n_loop_any(m, start, next, Wrap(n - 1),
                                          partition_size)

RECURSIVE try_allocate_n_loop(_, _, _, _, _)
try_allocate_n_loop(m, start, iter, n, partition_size) ==
    IF Wrap(n - 1) = 0
    THEN [iter |-> iter, start |-> start]
    ELSE LET next == m[iter]
         IN  IF next # iter + partition_size
             THEN [iter |-> NULL, start |-> iter]
             ELSE try_allocate_n_loop(m, start, next, Wrap(n - 1),
                                      partition_size)

try_allocate_n(m, first, start, n, partition_size) ==
    try_allocate_n_loop(m, start, nextof(m, first, start), n, partition_size)

\* a search that gives up when the first stretch of the list is too short
allocate_n_loop_one_try(m, first, start, n, partition_size) ==
    IF nextof(m, first, start) = NULL
    THEN [ret |-> NULL, mem |-> m, first |-> first]
    ELSE LET t == try_allocate_n(m, first, start, n, partition_size)
         IN  IF t.iter = NULL
             THEN [ret |-> NULL, mem |-> m, first |-> first]
             ELSE LET ret == nextof(m, first, t.start)
                      rest == m[t.iter]
                      taken == {ret + i * partition_size : i \in 0 .. (n - 1)}
                  IN  IF t.start = HeadRef
                      THEN [ret |-> ret, mem |-> Drop(m, taken),
                            first |-> rest]
                      ELSE [ret |-> ret,
                            mem |-> Drop(Store(m, t.start, rest), taken),
                            first |-> first]

RECURSIVE allocate_n_loop(_, _, _, _, _)
allocate_n_loop(m, first, start, n, partition_size) ==
    IF nextof(m, first, start) = NULL
    THEN [ret |-> NULL, mem |-> m, first |-> first]
    ELSE LET t == try_allocate_n(m, first, start, n, partition_size)
         IN  IF t.iter = NULL
             THEN allocate_n_loop(m, first, t.start, n, partition_size)
             ELSE LET ret == nextof(m, first, t.start)
                      rest == m[t.iter]
                      taken == {ret + i * partition_size : i \in 0 .. (n - 1)}
                  IN  IF t.start = HeadRef
                      THEN [ret |-> ret, mem |-> Drop(m, taken),
                            first |-> rest]
                      ELSE [ret |-> ret,
                            mem |-> Drop(Store(m, t.start, rest), taken),
                            first |-> first]

allocate_n(m, first, n, partition_size) ==
    IF n = 0
    THEN [ret |-> NULL, mem |-> m, first |-> first]
    ELSE allocate_n_loop(m, first, HeadRef, n, partition_size)

deallocate_n(m, first, chunks, n, partition_size) ==
    IF n # 0
    THEN add_block(m, first, chunks, Wrap(n * partition_size), partition_size)
    ELSE [mem |-> m, first |-> first]

\* chunks given back at the head of the free list
ordered_deallocate_n_at_head(m, first, chunks, n, partition_size) ==
    IF n # 0
    THEN add_block(m, first, chunks, Wrap(n * partition_size),
                   partition_size)
    ELSE [mem |-> m, first |-> first]

ordered_deallocate_n(m, first, chunks, n, partition_size) ==
    IF n # 0
    THEN add_ordered_block(m, first, chunks, Wrap(n * partition_size),
                           partition_size)
    ELSE [mem |-> m, first |-> first]

\* ------------------------------------------------------------------------
\* pool: sizes
\* ------------------------------------------------------------------------
\* a chunk size that is not rounded up
alloc_size_no_round == Max(requested_size, min_alloc_size)

alloc_size ==
    LET s == Max(requested_size, min_alloc_size)
        rem == s % min_align
    IN  IF rem # 0 THEN s + min_align - rem ELSE s

\* pod_size() read while next_size_ is ns
pod_size(ns) ==
    Wrap(ns * alloc_size + min_alloc_size + sizeof_size_type)

\* a growth step that leaves next_size_ as it is
grow_next_size_stays(ns) == ns

\* next_size_ after a block of ns chunks has been obtained
grow_next_size(ns) ==
    IF max_size_ = 0
    THEN Wrap(ns * 2)
    ELSE IF Wrap(ns * alloc_size) \div requested_size < max_size_
         THEN Min(Wrap(ns * 2),
                  Wrap(max_size_ * requested_size) \div alloc_size)
         ELSE ns

\* ------------------------------------------------------------------------
\* The system allocator
\* ------------------------------------------------------------------------
Overlaps(a, size, b) == a < b.ptr + b.sz /\ b.ptr < a + size

\* the region [a, a + size) touches an end of the arena or a block
Flush(s, a, size) ==
    \/ a = ArenaBase
    \/ a + size = ArenaEnd
    \/ \E b \in s : b.ptr + b.sz = a \/ a + size = b.ptr

\* what traits_type::allocate(*this, size) may return: null, or the start
\* of an aligned region of the arena that is not handed out; the regions
\* are placed against an end of a gap, which gives every relative order of
\* the blocks
SysChoices(s, size) ==
    {NULL} \cup {a \in ArenaAddrs :
                    /\ size > 0
                    /\ a + size <= ArenaEnd
                    /\ \A b \in s : ~Overlaps(a, size, b)
                    /\ Flush(s, a, size)}

\* traits_type::deallocate(*this, p.begin()): the words of the block are gone
SysFree(m, p) == Drop(m, p.ptr .. (p.ptr + p.sz - 1))

\* ------------------------------------------------------------------------
\* Walks of the two lists (for the properties)
\* ------------------------------------------------------------------------
MaxWalk == arena + 1

RECURSIVE FreeWalk(_, _, _)
FreeWalk(m, p, fuel) ==
    IF p = NULL \/ fuel = 0 \/ p \notin DOMAIN m
    THEN <<>>
    ELSE <<p>> \o FreeWalk(m, m[p], fuel - 1)

FreeSeq(m, first) == FreeWalk(m, first, MaxWalk)

RECURSIVE BlockWalk(_, _, _)
BlockWalk(m, p, fuel) ==
    IF ~valid(p) \/ fuel = 0
    THEN <<>>
    ELSE <<p>> \o BlockWalk(m, pod_next(m, p), fuel - 1)

BlockSeq(m, list) == BlockWalk(m, list, MaxWalk)

Range(s) == {s[i] : i \in DOMAIN s}

\* ------------------------------------------------------------------------
\* pool: growth
\* ------------------------------------------------------------------------
Result(ret, m, first, list, ns, s, reqs) ==
    [ret |-> ret, mem |-> m, first |-> first, list |-> list,
     next_size |-> ns, sys |-> s, reqs |-> reqs]

\* a request made of the system allocator: the size and whether it was served
Request(size, res) == [size |-> size, ok |-> res # NULL]

RECURSIVE find_prev_pod(_, _, _)
find_prev_pod(m, prev, node) ==
    IF m[ptr_next_ptr(prev)] = NULL \/ m[ptr_next_ptr(prev)] > node.ptr
    THEN prev
    ELSE find_prev_pod(m, pod_next(m, prev), node)

\* insertion of node into the address-ordered block list
insert_ordered(m, list, node) ==
    IF ~valid(list) \/ list.ptr > node.ptr
    THEN [mem |-> pod_set_next(m, node, list), list |-> node]
    ELSE LET prev == find_prev_pod(m, list, node)
         IN  [mem |-> pod_set_next(pod_set_next(m, node, pod_next(m, prev)),
                                   prev, node),
              list |-> list]

\* a growth whose retry asks for a quarter of next_size_
allocate_need_resize_quarter(r1, r2) ==
    LET partition_size == alloc_size
        retry == r1 = NULL /\ next_size_ > 4
        ns == IF retry THEN next_size_ \div 4 ELSE next_size_
        ptr == IF r1 # NULL THEN r1 ELSE IF retry THEN r2 ELSE NULL
        reqs == IF retry
                THEN <<Request(pod_size(next_size_), r1),
                       Request(pod_size(ns), r2)>>
                ELSE <<Request(pod_size(next_size_), r1)>>
    IN  IF ptr = NULL
        THEN Result(NULL, mem, first_, list_, ns, sys, reqs)
        ELSE LET node == pod_ptr(ptr, pod_size(ns))
                 ab == add_block(mem, first_, node.ptr, element_size(node),
                                 partition_size)
                 m2 == pod_set_next(ab.mem, node, list_)
                 a == store_allocate(m2, ab.first)
             IN  Result(a.ret, a.mem, a.first, node, grow_next_size(ns),
                        sys \cup {node}, reqs)

\* a growth that retries whatever next_size_ is
allocate_need_resize_retry_always(r1, r2) ==
    LET partition_size == alloc_size
        retry == r1 = NULL
        ns == IF retry THEN next_size_ \div 2 ELSE next_size_
        ptr == IF r1 # NULL THEN r1 ELSE IF retry THEN r2 ELSE NULL
        reqs == IF retry
                THEN <<Request(pod_size(next_size_), r1),
                       Request(pod_size(ns), r2)>>
                ELSE <<Request(pod_size(next_size_), r1)>>
    IN  IF ptr = NULL
        THEN Result(NULL, mem, first_, list_, ns, sys, reqs)
        ELSE LET node == pod_ptr(ptr, pod_size(ns))
                 ab == add_block(mem, first_, node.ptr, element_size(node),
                                 partition_size)
                 m2 == pod_set_next(ab.mem, node, list_)
                 a == store_allocate(m2, ab.first)
             IN  Result(a.ret, a.mem, a.first, node, grow_next_size(ns),
                        sys \cup {node}, reqs)

\* r1, r2: what the system allocator answers to the first request and to
\* the retry
allocate_need_resize(r1, r2) ==
    LET partition_size == alloc_size
        retry == r1 = NULL /\ next_size_ > 4
        ns == IF retry THEN next_size_ \div 2 ELSE next_size_
        ptr == IF r1 # NULL THEN r1 ELSE IF retry THEN r2 ELSE NULL
        reqs == IF retry
                THEN <<Request(pod_size(next_size_), r1),
                       Request(pod_size(ns), r2)>>
                ELSE <<Request(pod_size(next_size_), r1)>>
    IN  IF ptr = NULL
        THEN Result(NULL, mem, first_, list_, ns, sys, reqs)
        ELSE LET node == pod_ptr(ptr, pod_size(ns))
                 ab == add_block(mem, first_, node.ptr, element_size(node),
                                 partition_size)
                 m2 == pod_set_next(ab.mem, node, list_)
                 a == store_allocate(m2, ab.first)
             IN  Result(a.ret, a.mem, a.first, node, grow_next_size(ns),
                        sys \cup {node}, reqs)

ordered_allocate_need_resize(r1, r2) ==
    LET partition_size == alloc_size
        retry == r1 = NULL /\ next_size_ > 4
        ns == IF retry THEN next_size_ \div 2 ELSE next_size_
        ptr == IF r1 # NULL THEN r1 ELSE IF retry THEN r2 ELSE NULL
        reqs == IF retry
                THEN <<Request(pod_size(next_size_), r1),
                       Request(pod_size(ns), r2)>>
                ELSE <<Request(pod_size(next_size_), r1)>>
    IN  IF ptr = NULL
        THEN Result(NULL, mem, first_, list_, ns, sys, reqs)
        ELSE LET node == pod_ptr(ptr, pod_size(ns))
                 ab == add_ordered_block(mem, first_, node.ptr,
                                         element_size(node), partition_size)
                 ins == insert_ordered(ab.mem, list_, node)
                 a == store_allocate(ins.mem, ab.first)
             IN  Result(a.ret, a.mem, a.first, ins.list, grow_next_size(ns),
                        sys \cup {node}, reqs)

\* ------------------------------------------------------------------------
\* pool: allocation
\* ------------------------------------------------------------------------
\* allocate that does not look at the free list
pool_allocate_always_resize(r1, r2) == allocate_need_resize(r1, r2)

pool_allocate(r1, r2) ==
    IF first_ # NULL
    THEN LET a == store_allocate(mem, first_)
         IN  Result(a.ret, a.mem, a.first, list_, next_size_, sys, <<>>)
    ELSE allocate_need_resize(r1, r2)

pool_ordered_allocate(r1, r2) ==
    IF first_ # NULL
    THEN LET a == store_allocate(mem, first_)
         IN  Result(a.ret, a.mem, a.first, list_, next_size_, sys, <<>>)
    ELSE ordered_allocate_need_resize(r1, r2)

num_chunks_of(n) ==
    fast_ceil_division(Wrap(n * requested_size), alloc_size)

\* an ordered_allocate(n) that retries as the single-chunk path does
pool_ordered_allocate_n_retry_above_4(n, r1, r2) ==
    LET partition_size == alloc_size
        num_chunks == num_chunks_of(n)
        a == allocate_n(mem, first_, num_chunks, partition_size)
    IN  IF a.ret # NULL \/ n = 0
        THEN Result(a.ret, a.mem, a.first, list_, next_size_, sys, <<>>)
        ELSE LET ns0 == Max(next_size_, num_chunks)
                 retry == r1 = NULL /\ ns0 > 4
                 ns == IF retry THEN Max(ns0 \div 2, num_chunks) ELSE ns0
                 ptr == IF r1 # NULL THEN r1 ELSE IF retry THEN r2 ELSE NULL
                 reqs == IF retry
                         THEN <<Request(pod_size(ns0), r1),
                                Request(pod_size(ns), r2)>>
                         ELSE <<Request(pod_size(ns0), r1)>>
             IN  IF ptr = NULL
                 THEN Result(NULL, mem, first_, list_, ns, sys, reqs)
                 ELSE LET node == pod_ptr(ptr, pod_size(ns))
                          ab == IF ns > num_chunks
                                THEN add_ordered_block(mem, first_,
                                        node.ptr + num_chunks * partition_size,
                                        Wrap(element_size(node)
                                             - num_chunks * partition_size),
                                        partition_size)
                                ELSE [mem |-> mem, first |-> first_]
                          ins == insert_ordered(ab.mem, list_, node)
                      IN  Result(node.ptr, ins.mem, ab.first, ins.list,
                                 grow_next_size(ns), sys \cup {node}, reqs)

\* an ordered_allocate(n) that does not return early when n is 0
pool_ordered_allocate_n_zero_grows(n, r1, r2) ==
    LET partition_size == alloc_size
        num_chunks == num_chunks_of(n)
        a == allocate_n(mem, first_, num_chunks, partition_size)
    IN  IF a.ret # NULL
        THEN Result(a.ret, a.mem, a.first, list_, next_size_, sys, <<>>)
        ELSE LET ns0 == Max(next_size_, num_chunks)
                 retry == r1 = NULL /\ num_chunks < ns0
                 ns == IF retry THEN Max(ns0 \div 2, num_chunks) ELSE ns0
                 ptr == IF r1 # NULL THEN r1 ELSE IF retry THEN r2 ELSE NULL
                 reqs == IF retry
                         THEN <<Request(pod_size(ns0), r1),
                                Request(pod_size(ns), r2)>>
                         ELSE <<Request(pod_size(ns0), r1)>>
             IN  IF ptr = NULL
                 THEN Result(NULL, mem, first_, list_, ns, sys, reqs)
                 ELSE LET node == pod_ptr(ptr, pod_size(ns))
                          ab == IF ns > num_chunks
                                THEN add_ordered_block(mem, first_,
                                        node.ptr + num_chunks * partition_size,
                                        Wrap(element_size(node)
                                             - num_chunks * partition_size),
                                        partition_size)
                                ELSE [mem |-> mem, first |-> first_]
                          ins == insert_ordered(ab.mem, list_, node)
                      IN  Result(node.ptr, ins.mem, ab.first, ins.list,
                                 grow_next_size(ns), sys \cup {node}, reqs)

pool_ordered_allocate_n(n, r1, r2) ==
    LET partition_size == alloc_size
        num_chunks == num_chunks_of(n)
        a == allocate_n(mem, first_, num_chunks, partition_size)
    IN  IF a.ret # NULL \/ n = 0
        THEN Result(a.ret, a.mem, a.first, list_, next_size_, sys, <<>>)
        ELSE LET ns0 == Max(next_size_, num_chunks)
                 retry == r1 = NULL /\ num_chunks < ns0
                 ns == IF retry THEN Max(ns0 \div 2, num_chunks) ELSE ns0
                 ptr == IF r1 # NULL THEN r1 ELSE IF retry THEN r2 ELSE NULL
                 reqs == IF retry
                         THEN <<Request(pod_size(ns0), r1),
                                Request(pod_size(ns), r2)>>
                         ELSE <<Request(pod_size(ns0), r1)>>
             IN  IF ptr = NULL
                 THEN Result(NULL, mem, first_, list_, ns, sys, reqs)
                 ELSE LET node == pod_ptr(ptr, pod_size(ns))
                          ab == IF ns > num_chunks
                                THEN add_ordered_block(mem, first_,
                                        node.ptr + num_chunks * partition_size,
                                        Wrap(element_size(node)
                                             - num_chunks * partition_size),
                                        partition_size)
                                ELSE [mem |-> mem, first |-> first_]
                          ins == insert_ordered(ab.mem, list_, node)
                      IN  Result(node.ptr, ins.mem, ab.first, ins.list,
                                 grow_next_size(ns), sys \cup {node}, reqs)

\* what the system allocator may answer to the retry of a call whose first
\* request it answered with r1 (null when the call makes no retry)
Answers(r1, retry, retrySize) ==
    IF r1 = NULL /\ retry THEN SysChoices(sys, retrySize) ELSE {NULL}

\* ------------------------------------------------------------------------
\* pool: release_memory and purge_memory
\* ------------------------------------------------------------------------
\* a containment test that takes the end of the chunks for a chunk
pool_is_from_le(chunk, i, sizeof_i) == i <= chunk /\ chunk <= i + sizeof_i

pool_is_from(chunk, i, sizeof_i) == i <= chunk /\ chunk < i + sizeof_i

\* a scan that, once it has seen a free chunk of the block, passes over the
\* chunks that are not free
RECURSIVE chunk_scan_passes_over(_, _, _, _, _, _)
chunk_scan_passes_over(m, i, end, free_p, saved_free, partition_size) ==
    IF i = end
    THEN [all_chunks_free |-> TRUE, free_p |-> free_p]
    ELSE IF i # free_p
         THEN IF free_p = saved_free
              THEN [all_chunks_free |-> FALSE, free_p |-> saved_free]
              ELSE chunk_scan_passes_over(m, i + partition_size, end, free_p,
                                          saved_free, partition_size)
         ELSE chunk_scan_passes_over(m, i + partition_size, end, m[free_p],
                                     saved_free, partition_size)

\* the for loop over the chunks of one block: all_chunks_free and free_p
RECURSIVE chunk_scan(_, _, _, _, _, _)
chunk_scan(m, i, end, free_p, saved_free, partition_size) ==
    IF i = end
    THEN [all_chunks_free |-> TRUE, free_p |-> free_p]
    ELSE IF i # free_p
         THEN [all_chunks_free |-> FALSE, free_p |-> saved_free]
         ELSE chunk_scan(m, i + partition_size, end, m[free_p], saved_free,
                         partition_size)

\* leaving a kept block without moving prev_free_p to its last free chunk
RECURSIVE skip_block_no_prev(_, _, _)
skip_block_no_prev(m, free_p, end) ==
    LET next_free == m[free_p]
    IN  IF next_free # NULL /\ next_free < end
        THEN skip_block_no_prev(m, next_free, end)
        ELSE [prev_free_p |-> NULL, free_p |-> next_free]

\* the do-while loop that leaves a block that is kept
RECURSIVE skip_block(_, _, _)
skip_block(m, free_p, end) ==
    LET next_free == m[free_p]
    IN  IF next_free # NULL /\ next_free < end
        THEN skip_block(m, next_free, end)
        ELSE [prev_free_p |-> free_p, free_p |-> next_free]

\* the while loop over the blocks; s holds the locals and the pool fields
RECURSIVE release_loop(_)
release_loop(s) ==
    IF ~valid(s.ptr) \/ s.free_p = NULL
    THEN s
    ELSE LET scan == chunk_scan(s.mem, s.ptr.ptr, pod_end(s.ptr), s.free_p,
                                s.free_p, alloc_size)
             next == pod_next(s.mem, s.ptr)
         IN  IF ~scan.all_chunks_free
             THEN LET sk == IF pool_is_from(scan.free_p, s.ptr.ptr,
                                            element_size(s.ptr))
                            THEN skip_block(s.mem, scan.free_p,
                                            pod_end(s.ptr))
                            ELSE [prev_free_p |-> s.prev_free_p,
                                  free_p |-> scan.free_p]
                  IN  release_loop([s EXCEPT !.prev = s.ptr,
                                             !.free_p = sk.free_p,
                                             !.prev_free_p = sk.prev_free_p,
                                             !.ptr = next])
             ELSE LET m1 == IF valid(s.prev)
                            THEN pod_set_next(s.mem, s.prev, next)
                            ELSE s.mem
                      l1 == IF valid(s.prev) THEN s.list ELSE next
                      m2 == IF s.prev_free_p # NULL
                            THEN Store(m1, s.prev_free_p, scan.free_p)
                            ELSE m1
                      f2 == IF s.prev_free_p # NULL
                            THEN s.first ELSE scan.free_p
                  IN  release_loop([s EXCEPT !.mem = SysFree(m2, s.ptr),
                                             !.list = l1,
                                             !.first = f2,
                                             !.sys = s.sys \ {s.ptr},
                                             !.freed = s.freed \cup {s.ptr},
                                             !.free_p = scan.free_p,
                                             !.ret = TRUE,
                                             !.ptr = next])

\* one pass of the while loop of release_memory, from a state in which ptr is
\* valid and free_p is not null
release_body(s) ==
    LET scan == chunk_scan(s.mem, s.ptr.ptr, pod_end(s.ptr), s.free_p,
                           s.free_p, alloc_size)
        next == pod_next(s.mem, s.ptr)
    IN  IF ~scan.all_chunks_free
        THEN LET sk == IF pool_is_from(scan.free_p, s.ptr.ptr,
                                       element_size(s.ptr))
                       THEN skip_block(s.mem, scan.free_p, pod_end(s.ptr))
                       ELSE [prev_free_p |-> s.prev_free_p,
                             free_p |-> scan.free_p]
             IN  [s EXCEPT !.prev = s.ptr,
                           !.free_p = sk.free_p,
                           !.prev_free_p = sk.prev_free_p,
                           !.ptr = next]
        ELSE LET m1 == IF valid(s.prev)
                       THEN pod_set_next(s.mem, s.prev, next)
                       ELSE s.mem
                 l1 == IF valid(s.prev) THEN s.list ELSE next
                 m2 == IF s.prev_free_p # NULL
                       THEN Store(m1, s.prev_free_p, scan.free_p)
                       ELSE m1
                 f2 == IF s.prev_free_p # NULL THEN s.first ELSE scan.free_p
             IN  [s EXCEPT !.mem = SysFree(m2, s.ptr),
                           !.list = l1,
                           !.first = f2,
                           !.sys = s.sys \ {s.ptr},
                           !.freed = s.freed \cup {s.ptr},
                           !.free_p = scan.free_p,
                           !.ret = TRUE,
                           !.ptr = next]

\* release_memory whose ret starts as true
release_memory_ret_true ==
    release_loop([ptr |-> list_, prev |-> pod_null, free_p |-> first_,
                  prev_free_p |-> NULL, mem |-> mem, first |-> first_,
                  list |-> list_, sys |-> sys, freed |-> {}, ret |-> TRUE])

release_memory ==
    release_loop([ptr |-> list_, prev |-> pod_null, free_p |-> first_,
                  prev_free_p |-> NULL, mem |-> mem, first |-> first_,
                  list |-> list_, sys |-> sys, freed |-> {}, ret |-> FALSE])

\* a purge that gives back the first block of the list only
purge_loop_first_only(m, iter, freed) ==
    [mem |-> SysFree(m, iter), freed |-> freed \cup {iter}]

RECURSIVE purge_loop(_, _, _)
purge_loop(m, iter, freed) ==
    LET next == pod_next(m, iter)
        m1 == SysFree(m, iter)
    IN  IF valid(next)
        THEN purge_loop(m1, next, freed \cup {iter})
        ELSE [mem |-> m1, freed |-> freed \cup {iter}]

RECURSIVE find_pod_loop(_, _, _)
find_pod_loop(m, iter, chunk) ==
    IF ~valid(iter)
    THEN iter
    ELSE IF pool_is_from(chunk, iter.ptr, element_size(iter))
         THEN iter
         ELSE find_pod_loop(m, pod_next(m, iter), chunk)

find_pod(chunk) == find_pod_loop(mem, list_, chunk)

is_from(chunk) == valid(find_pod(chunk))

\* ------------------------------------------------------------------------
\* pool_allocator and fast_pool_allocator
\* ------------------------------------------------------------------------
\* r: what the pool did; thrown: bad_alloc is thrown
Typed(r, n) == [r |-> r, thrown |-> r.ret = NULL /\ n # 0]

\* an allocate that returns what the pool returned
pool_allocator_allocate_no_throw(n, r1, r2) ==
    [r |-> pool_ordered_allocate_n(n, r1, r2), thrown |-> FALSE]

pool_allocator_allocate(n, r1, r2) ==
    Typed(pool_ordered_allocate_n(n, r1, r2), n)

fast_pool_allocator_allocate(n, r1, r2) ==
    Typed(IF n = 1 THEN pool_allocate(r1, r2)
          ELSE pool_ordered_allocate_n(n, r1, r2), n)

\* ------------------------------------------------------------------------
\* The calls
\* ------------------------------------------------------------------------
\* the record of a call: its name, its arguments, the address or the boolean
\* it returned, the requests it made of the system allocator, the number of
\* blocks it gave back to it, the next_size_ it found; for an allocation the
\* free list it found, for a deallocation whether it gives back what the
\* call before it returned
Call(op, arg, n, ret, flag, reqs, freed, pre, rt) ==
    [op |-> op, arg |-> arg, n |-> n, ret |-> ret, flag |-> flag,
     reqs |-> reqs, freed |-> Cardinality(freed), pre |-> pre, rt |-> rt,
     ns |-> next_size_]

AllocCall(op, n, r) ==
    Call(op, NULL, n, r.ret, FALSE, r.reqs, {}, FreeSeq(mem, first_), FALSE)

FreeCall(op, h, rt) ==
    Call(op, h.p, h.n, NULL, FALSE, <<>>, {}, <<>>, rt)

\* n: the number of regions the callers hold when the sweep is called
SweepCall(op, flag, freed) ==
    Call(op, NULL, Cardinality(held), NULL, flag, <<>>, freed, <<>>, FALSE)

One(p) == [p |-> p, chunks |-> 1, n |-> 1, kind |-> "one"]

Arr(p, n) == [p |-> p, chunks |-> num_chunks_of(n), n |-> n, kind |-> "arr"]

Params == <<requested_size, start_size_, max_size_, arena, facade, pending>>

Singletons == <<pc, tagof, frame, initalized, mu, built>>

Config == <<requested_size, start_size_, max_size_, arena, facade, handles,
            parked, cur, Singletons, pending>>

\* a pool that is used directly: no pool_allocator object refers to it
Direct ==
    /\ handles = <<>>
    /\ parked = <<>>
    /\ cur = 0
    /\ pc = <<>>
    /\ tagof = <<>>
    /\ frame = <<>>
    /\ initalized = <<>>
    /\ mu = <<>>
    /\ built = <<>>
    /\ pending = <<>>

Apply(r) ==
    /\ mem' = r.mem
    /\ first_' = r.first
    /\ list_' = r.list
    /\ next_size_' = r.next_size
    /\ sys' = r.sys

\* the members of a pool after its constructor
Fresh ==
    /\ next_size_ = start_size_
    /\ first_ = NULL
    /\ list_ = pod_null
    /\ mem = <<>>
    /\ sys = {}
    /\ held = {}
    /\ last = [op |-> "pool", arg |-> NULL, n |-> 0, ret |-> NULL,
               flag |-> FALSE, reqs |-> <<>>, freed |-> 0, pre |-> <<>>,
               rt |-> FALSE, ns |-> next_size_]

Init ==
    /\ \E p \in PoolParams : requested_size = p[1] /\ max_size_ = p[2]
    /\ start_size_ \in 1 .. MaxStart
    /\ arena = ArenaWords
    /\ facade = "pool"
    /\ Direct
    /\ Fresh

Allocate ==
    \E r1 \in SysChoices(sys, pod_size(next_size_)) :
    \E r2 \in Answers(r1, next_size_ > 4, pod_size(next_size_ \div 2)) :
        /\ first_ # NULL => r1 = NULL
        /\ LET r == pool_allocate(r1, r2)
           IN  /\ Apply(r)
               /\ held' = IF r.ret # NULL THEN held \cup {One(r.ret)}
                          ELSE held
               /\ last' = AllocCall("allocate", 0, r)
        /\ UNCHANGED Config

OrderedAllocate ==
    \E r1 \in SysChoices(sys, pod_size(next_size_)) :
    \E r2 \in Answers(r1, next_size_ > 4, pod_size(next_size_ \div 2)) :
        /\ first_ # NULL => r1 = NULL
        /\ LET r == pool_ordered_allocate(r1, r2)
           IN  /\ Apply(r)
               /\ held' = IF r.ret # NULL THEN held \cup {One(r.ret)}
                          ELSE held
               /\ last' = AllocCall("ordered_allocate", 0, r)
        /\ UNCHANGED Config

OrderedAllocateNOf(n) ==
    LET num_chunks == num_chunks_of(n)
        ns0 == Max(next_size_, num_chunks)
        served == allocate_n(mem, first_, num_chunks, alloc_size).ret
                    # NULL \/ n = 0
    IN  \E r1 \in SysChoices(sys, pod_size(ns0)) :
        \E r2 \in Answers(r1, num_chunks < ns0,
                          pod_size(Max(ns0 \div 2, num_chunks))) :
            /\ served => r1 = NULL
            /\ LET r == pool_ordered_allocate_n(n, r1, r2)
               IN  /\ Apply(r)
                   /\ held' = IF r.ret # NULL THEN held \cup {Arr(r.ret, n)}
                              ELSE held
                   /\ last' = AllocCall("ordered_allocate_n", n, r)
            /\ UNCHANGED Config

OrderedAllocateN == \E n \in 0 .. MaxN : OrderedAllocateNOf(n)

Ascending(q) == \A i, j \in DOMAIN q : i < j => q[i] < q[j]

\* the call gives back what the call before it returned (from a free list
\* that was ordered, for the ordered calls)
RoundTrip(h, op) ==
    /\ last.op = op
    /\ last.ret = h.p
    /\ op # "allocate" => Ascending(last.pre)

Deallocate ==
    \E h \in held :
        /\ h.kind = "one"
        /\ LET d == store_deallocate(mem, first_, h.p)
           IN  /\ mem' = d.mem
               /\ first_' = d.first
        /\ held' = held \ {h}
        /\ last' = FreeCall("deallocate", h, RoundTrip(h, "allocate"))
        /\ UNCHANGED <<Config, next_size_, list_, sys>>

OrderedDeallocate ==
    \E h \in held :
        /\ h.kind = "one"
        /\ LET d == store_ordered_deallocate(mem, first_, h.p)
           IN  /\ mem' = d.mem
               /\ first_' = d.first
        /\ held' = held \ {h}
        /\ last' = FreeCall("ordered_deallocate", h,
                            RoundTrip(h, "ordered_allocate"))
        /\ UNCHANGED <<Config, next_size_, list_, sys>>

DeallocateN ==
    \E h \in held :
        /\ h.kind = "arr"
        /\ LET d == deallocate_n(mem, first_, h.p, num_chunks_of(h.n),
                                 alloc_size)
           IN  /\ mem' = d.mem
               /\ first_' = d.first
        /\ held' = held \ {h}
        /\ last' = FreeCall("deallocate_n", h, FALSE)
        /\ UNCHANGED <<Config, next_size_, list_, sys>>

OrderedDeallocateN ==
    \E h \in held :
        /\ h.kind = "arr"
        /\ LET d == ordered_deallocate_n(mem, first_, h.p,
                                         num_chunks_of(h.n), alloc_size)
           IN  /\ mem' = d.mem
               /\ first_' = d.first
        /\ held' = held \ {h}
        /\ last' = FreeCall("ordered_deallocate_n", h,
                            RoundTrip(h, "ordered_allocate_n"))
        /\ UNCHANGED <<Config, next_size_, list_, sys>>

\* release_memory that resets next_size_ only when it gave a block back
ReleaseMemory_reset_if_released ==
    LET s == release_memory
    IN  /\ mem' = s.mem
        /\ first_' = s.first
        /\ list_' = s.list
        /\ sys' = s.sys
        /\ next_size_' = IF s.ret THEN start_size_ ELSE next_size_
        /\ last' = SweepCall("release_memory", s.ret, s.freed)
        /\ UNCHANGED <<Config, held>>

ReleaseMemory ==
    LET s == release_memory
    IN  /\ mem' = s.mem
        /\ first_' = s.first
        /\ list_' = s.list
        /\ sys' = s.sys
        /\ next_size_' = start_size_
        /\ last' = SweepCall("release_memory", s.ret, s.freed)
        /\ UNCHANGED <<Config, held>>

PurgeMemory ==
    /\ IF ~valid(list_)
       THEN /\ last' = SweepCall("purge_memory", FALSE, {})
            /\ UNCHANGED <<mem, first_, list_, sys, next_size_, held>>
       ELSE LET s == purge_loop(mem, list_, {})
            IN  /\ mem' = s.mem
                /\ sys' = sys \ s.freed
                /\ list_' = [list_ EXCEPT !.ptr = NULL]
                /\ first_' = NULL
                /\ next_size_' = start_size_
                /\ held' = {}
                /\ last' = SweepCall("purge_memory", TRUE, s.freed)
    /\ UNCHANGED Config

Next ==
    \/ Allocate
    \/ OrderedAllocate
    \/ OrderedAllocateN
    \/ Deallocate
    \/ OrderedDeallocate
    \/ DeallocateN
    \/ OrderedDeallocateN
    \/ ReleaseMemory
    \/ PurgeMemory

Spec == Init /\ [][Next]_vars

\* deallocate(chunks, 0) and ordered_deallocate(chunks, 0): chunks is null or
\* an address a caller holds
DeallocateZero ==
    \E p \in {NULL} \cup {h.p : h \in held} :
        /\ LET d == deallocate_n(mem, first_, p, num_chunks_of(0), alloc_size)
           IN  /\ mem' = d.mem
               /\ first_' = d.first
        /\ last' = FreeCall("deallocate_n", [p |-> p, n |-> 0], FALSE)
        /\ UNCHANGED <<Config, next_size_, list_, sys, held>>

OrderedDeallocateZero ==
    \E p \in {NULL} \cup {h.p : h \in held} :
        /\ LET d == ordered_deallocate_n(mem, first_, p, num_chunks_of(0),
                                         alloc_size)
           IN  /\ mem' = d.mem
               /\ first_' = d.first
        /\ last' = FreeCall("ordered_deallocate_n", [p |-> p, n |-> 0], FALSE)
        /\ UNCHANGED <<Config, next_size_, list_, sys, held>>

\* the calls of the pool, those of length zero among them
NextZero ==
    \/ Next
    \/ DeallocateZero
    \/ OrderedDeallocateZero

SpecZero == Init /\ [][NextZero]_vars

\* is_from(chunk), a const member: chunk is any word of the arena
IsFrom ==
    /\ \E chunk \in ArenaAddrs :
            last' = Call("is_from", chunk, 0, NULL, is_from(chunk), <<>>, {},
                         <<>>, FALSE)
    /\ UNCHANGED <<Config, mem, first_, list_, next_size_, sys, held>>

\* the calls of the pool and its query
NextQuery ==
    \/ Next
    \/ IsFrom

SpecQuery == Init /\ [][NextQuery]_vars

\* a pool that is used through the ordered calls only
NextOrdered ==
    \/ OrderedAllocate
    \/ OrderedAllocateN
    \/ OrderedDeallocate
    \/ OrderedDeallocateN
    \/ ReleaseMemory

SpecOrdered == Init /\ [][NextOrdered]_vars

\* ------------------------------------------------------------------------
\* What the properties speak of
\* ------------------------------------------------------------------------
\* a fresh pool with max_size 0 on which allocate() is called, every request
\* of a block being served
InitServed ==
    /\ \E p \in ServedParams : requested_size = p[1] /\ start_size_ = p[2]
    /\ max_size_ = 0
    /\ arena = ServedWords
    /\ facade = "pool"
    /\ Direct
    /\ Fresh

AllocateServed ==
    /\ Allocate
    /\ \A i \in DOMAIN last'.reqs : last'.reqs[i].ok

NextServed == AllocateServed

SpecServed == InitServed /\ [][NextServed]_vars

\* pools with larger blocks, on which single chunks are allocated and the
\* memory is purged
InitSized ==
    /\ \E p \in SizedParams :
            requested_size = p[1] /\ start_size_ = p[2] /\ max_size_ = p[3]
    /\ arena = pod_size(start_size_) \div min_align + SizedSlack
    /\ facade = "pool"
    /\ Direct
    /\ Fresh

NextSized ==
    \/ Allocate
    \/ OrderedAllocate
    \/ PurgeMemory

SpecSized == InitSized /\ [][NextSized]_vars

\* pools on which ordered_allocate(n) is called and the memory is purged
InitRuns ==
    /\ \E p \in RunParams :
            requested_size = p[1] /\ start_size_ = p[2] /\ max_size_ = p[3]
    /\ arena = pod_size(start_size_) \div min_align + SizedSlack
    /\ facade = "pool"
    /\ Direct
    /\ Fresh

OrderedAllocateRun == \E n \in 1 .. MaxRun : OrderedAllocateNOf(n)

NextRuns ==
    \/ OrderedAllocateRun
    \/ PurgeMemory

SpecRuns == InitRuns /\ [][NextRuns]_vars

\* pools of one block whose requested size is not the size of a chunk
TripParams == {<<4, 5, 0>>, <<12, 5, 0>>}

InitTrip ==
    /\ \E p \in TripParams :
            requested_size = p[1] /\ start_size_ = p[2] /\ max_size_ = p[3]
    /\ arena = pod_size(start_size_) \div min_align
    /\ facade = "pool"
    /\ Direct
    /\ Fresh

\* pools whose requests of a block fail: every allocating call, and purges
NullParams == {<<8, 5, 0>>, <<8, 3, 0>>}

InitNull ==
    /\ \E p \in NullParams :
            requested_size = p[1] /\ start_size_ = p[2] /\ max_size_ = p[3]
    /\ arena = pod_size(start_size_) \div min_align + SizedSlack
    /\ facade = "pool"
    /\ Direct
    /\ Fresh

NextNull ==
    \/ Allocate
    \/ OrderedAllocate
    \/ OrderedAllocateRun
    \/ PurgeMemory

SpecNull == InitNull /\ [][NextNull]_vars

\* pools of one block whose chunks are taken and given back through the
\* ordered calls, one at a time and in runs
InitHoles ==
    /\ \E p \in HoleParams :
            requested_size = p[1] /\ start_size_ = p[2] /\ max_size_ = p[3]
    /\ arena = pod_size(start_size_) \div min_align
    /\ facade = "pool"
    /\ Direct
    /\ Fresh

NextHoles ==
    \/ OrderedAllocate
    \/ OrderedAllocateRun
    \/ OrderedDeallocate
    \/ OrderedDeallocateN

SpecHoles == InitHoles /\ [][NextHoles]_vars

\* the pool of a pool_allocator or of a fast_pool_allocator: sizeof(T) and
\* the template parameters NextSize and MaxSize
InitTyped ==
    /\ \E p \in PoolParams : requested_size = p[1] /\ max_size_ = p[2]
    /\ start_size_ \in 1 .. MaxStart
    /\ arena = ArenaWords
    /\ facade \in {"pool_allocator", "fast_pool_allocator"}
    /\ Direct
    /\ Fresh

\* the call of allocate(n) of a facade: t is what it did
TypedAllocate(op, n, t) ==
    /\ Apply(t.r)
    /\ held' = IF t.r.ret # NULL THEN held \cup {Arr(t.r.ret, n)} ELSE held
    /\ last' = [AllocCall(op, n, t.r) EXCEPT !.flag = t.thrown]
    /\ UNCHANGED Config

PoolAllocatorAllocate ==
    /\ facade = "pool_allocator"
    /\ \E n \in 0 .. MaxN :
        LET num_chunks == num_chunks_of(n)
            ns0 == Max(next_size_, num_chunks)
            served == allocate_n(mem, first_, num_chunks, alloc_size).ret
                        # NULL \/ n = 0
        IN  \E r1 \in SysChoices(sys, pod_size(ns0)) :
            \E r2 \in Answers(r1, num_chunks < ns0,
                              pod_size(Max(ns0 \div 2, num_chunks))) :
                /\ served => r1 = NULL
                /\ TypedAllocate("pool_allocator::allocate", n,
                                 pool_allocator_allocate(n, r1, r2))

PoolAllocatorDeallocate ==
    /\ facade = "pool_allocator"
    /\ OrderedDeallocateN

FastPoolAllocatorAllocate ==
    /\ facade = "fast_pool_allocator"
    /\ \E n \in 0 .. MaxN :
        LET num_chunks == num_chunks_of(n)
            ns0 == IF n = 1 THEN next_size_ ELSE Max(next_size_, num_chunks)
            served == IF n = 1 THEN first_ # NULL
                      ELSE allocate_n(mem, first_, num_chunks, alloc_size).ret
                             # NULL \/ n = 0
            retry == IF n = 1 THEN next_size_ > 4 ELSE num_chunks < ns0
            retrySize == IF n = 1 THEN pod_size(next_size_ \div 2)
                         ELSE pod_size(Max(ns0 \div 2, num_chunks))
        IN  \E r1 \in SysChoices(sys, pod_size(ns0)) :
            \E r2 \in Answers(r1, retry, retrySize) :
                /\ served => r1 = NULL
                /\ TypedAllocate("fast_pool_allocator::allocate", n,
                                 fast_pool_allocator_allocate(n, r1, r2))

FastPoolAllocatorDeallocate ==
    /\ facade = "fast_pool_allocator"
    /\ \E h \in held :
        /\ LET d == IF h.n = 1
                    THEN store_deallocate(mem, first_, h.p)
                    ELSE deallocate_n(mem, first_, h.p, num_chunks_of(h.n),
                                      alloc_size)
           IN  /\ mem' = d.mem
               /\ first_' = d.first
        /\ held' = held \ {h}
        /\ last' = FreeCall("fast_pool_allocator::deallocate", h, FALSE)
        /\ UNCHANGED <<Config, next_size_, list_, sys>>

NextTyped ==
    \/ PoolAllocatorAllocate
    \/ PoolAllocatorDeallocate
    \/ FastPoolAllocatorAllocate
    \/ FastPoolAllocatorDeallocate

SpecTyped == InitTyped /\ [][NextTyped]_vars

\* ------------------------------------------------------------------------
\* pool_allocator objects and the pools they refer to
\* ------------------------------------------------------------------------
\* what an object refers to: the number of a pool, or nothing after it was
\* moved from; a name that is not in use refers to NoObject
NoObject == 0
NoPool == 0 - 1
HandleIds == 1 .. MaxHandles
PoolIds == 1 .. MaxHandles

\* the members of the pool being operated on, and those of a new pool
Members == [first |-> first_, list |-> list_, next_size |-> next_size_]
FreshMembers == [first |-> NULL, list |-> pod_null, next_size |-> start_size_]

Park(f, k, v) == [x \in (DOMAIN f) \cup {k} |-> IF x = k THEN v ELSE f[x]]
Unpark(f, k) == [x \in (DOMAIN f) \ {k} |-> f[x]]

ExistingPools == (DOMAIN parked) \cup (IF cur # 0 THEN {cur} ELSE {})
Owners(k) == {h \in HandleIds : handles[h] = k}
PoolOf(k) == IF k = cur THEN Members ELSE parked[k]

\* operator== of two pool_allocator objects
pool_allocator_eq(x, y) == TRUE

HandleCall(op, h, flag, freed) ==
    Call(op, h, 0, NULL, flag, <<>>, freed, <<>>, FALSE)

\* make_shared<pair_type>(pool_type(NextSize, MaxSize)): a new pool
NewPool(op, h) ==
    LET free == PoolIds \ ExistingPools
        k == CHOOSE x \in free : \A y \in free : x <= y
    IN  /\ handles[h] = NoObject
        /\ handles' = [handles EXCEPT ![h] = k]
        /\ parked' = Park(parked, k, FreshMembers)
        /\ last' = HandleCall(op, h, FALSE, {})
        /\ UNCHANGED <<Params, Singletons, cur, next_size_, first_, list_, mem,
                       sys, held>>

DefaultConstruct == \E h \in HandleIds : NewPool("pool_allocator()", h)

\* the constructor from an allocator of another value type delegates to the
\* default constructor
RebindConstruct == \E h \in HandleIds : NewPool("pool_allocator(rebind)", h)

CopyConstruct ==
    \E h, g \in HandleIds :
        /\ handles[h] = NoObject
        /\ handles[g] # NoObject
        /\ handles' = [handles EXCEPT ![h] = handles[g]]
        /\ last' = HandleCall("pool_allocator(copy)", h, FALSE, {})
        /\ UNCHANGED <<Params, Singletons, parked, cur, next_size_, first_,
                       list_, mem, sys, held>>

\* the moved-from object is left without a pool
MoveConstruct ==
    \E h, g \in HandleIds :
        /\ handles[h] = NoObject
        /\ handles[g] # NoObject
        /\ handles' = [handles EXCEPT ![h] = handles[g], ![g] = NoPool]
        /\ last' = HandleCall("pool_allocator(move)", h, FALSE, {})
        /\ UNCHANGED <<Params, Singletons, parked, cur, next_size_, first_,
                       list_, mem, sys, held>>

\* the regions of callers that do not lie in a block of freed
Surviving(freed) ==
    {x \in held : \A b \in freed : ~(b.ptr <= x.p /\ x.p < b.ptr + b.sz)}

\* ~pool_allocator: the pool goes with the last object that refers to it,
\* and ~pool calls purge_memory
DestroyOf(h) ==
    LET k == handles[h]
        m == PoolOf(k)
        s == IF valid(m.list) THEN purge_loop(mem, m.list, {})
             ELSE [mem |-> mem, freed |-> {}]
    IN  /\ k # NoObject
        /\ handles' = [handles EXCEPT ![h] = NoObject]
        /\ IF k \in PoolIds /\ Owners(k) = {h}
           THEN /\ mem' = s.mem
                /\ sys' = sys \ s.freed
                /\ held' = Surviving(s.freed)
                /\ IF k = cur
                   THEN /\ cur' = 0
                        /\ first_' = NULL
                        /\ list_' = pod_null
                        /\ next_size_' = start_size_
                        /\ UNCHANGED parked
                   ELSE /\ parked' = Unpark(parked, k)
                        /\ UNCHANGED <<cur, first_, list_, next_size_>>
                /\ last' = HandleCall("~pool_allocator", h, TRUE, s.freed)
           ELSE /\ last' = HandleCall("~pool_allocator", h, FALSE, {})
                /\ UNCHANGED <<parked, cur, next_size_, first_, list_, mem,
                               sys, held>>
        /\ UNCHANGED <<Params, Singletons>>

Destroy == \E h \in HandleIds : DestroyOf(h)

\* pool_impl() of an object whose pool is not the one operated on last: the
\* members of that pool are the ones the next call acts on
PoolImpl ==
    \E h \in HandleIds :
        LET k == handles[h]
        IN  /\ k \in PoolIds
            /\ k # cur
            /\ cur' = k
            /\ first_' = parked[k].first
            /\ list_' = parked[k].list
            /\ next_size_' = parked[k].next_size
            /\ parked' = IF cur = 0 THEN Unpark(parked, k)
                         ELSE Park(Unpark(parked, k), cur, Members)
            /\ last' = HandleCall("pool_impl", h, FALSE, {})
            /\ UNCHANGED <<Params, Singletons, handles, mem, sys, held>>

\* allocate(n) through an object that refers to the pool operated on
SharedAllocate ==
    /\ cur # 0
    /\ PoolAllocatorAllocate

\* deallocate(p, n) of a region that came from the pool operated on
SharedDeallocate ==
    /\ cur # 0
    /\ PoolAllocatorDeallocate
    /\ is_from(last'.arg)

\* deallocate(p, n) of any region a caller holds, through any object
EqualDeallocate ==
    /\ cur # 0
    /\ PoolAllocatorDeallocate

InitShared ==
    /\ \E p \in PoolParams : requested_size = p[1] /\ max_size_ = p[2]
    /\ start_size_ \in 1 .. MaxStart
    /\ arena = ArenaWords
    /\ facade = "pool_allocator"
    /\ handles = [h \in HandleIds |-> NoObject]
    /\ parked = <<>>
    /\ cur = 0
    /\ pc = <<>>
    /\ tagof = <<>>
    /\ frame = <<>>
    /\ initalized = <<>>
    /\ mu = <<>>
    /\ built = <<>>
    /\ pending = <<>>
    /\ Fresh

\* the objects are made, copied, moved and destroyed, and each region goes
\* back to the pool it came from
NextShared ==
    \/ DefaultConstruct
    \/ CopyConstruct
    \/ MoveConstruct
    \/ Destroy
    \/ PoolImpl
    \/ SharedAllocate
    \/ SharedDeallocate

SpecShared == InitShared /\ [][NextShared]_vars

\* the objects are made and copied, and each region goes back through any
\* object, all objects comparing equal
NextEqual ==
    \/ DefaultConstruct
    \/ RebindConstruct
    \/ CopyConstruct
    \/ PoolImpl
    \/ SharedAllocate
    \/ EqualDeallocate

SpecEqual == InitShared /\ [][NextEqual]_vars

\* pools whose requested size is below, at, between and above the multiples
\* of min_align
AlignedSizes == {1, 7, 8, 9, 12, 16, 17}

InitAligned ==
    /\ requested_size \in AlignedSizes
    /\ max_size_ = 0
    /\ start_size_ \in 1 .. MaxStart
    /\ arena = ArenaWords
    /\ facade = "pool"
    /\ Direct
    /\ Fresh

SpecAligned == InitAligned /\ [][Next]_vars

\* segregate called on a raw block: the sizes of the chunks and of the
\* block, the place of the block and the end of the list it is put before
SegParts == {8, 12, 16}
SegBlocks == {ArenaBase, ArenaBase + min_align}
SegEnds == {NULL, ArenaBase + 16 * MaxSeg}

\* the bytes of the block and the bytes after it
SegAddrs == ArenaBase .. (ArenaBase + min_align + 2 * MaxSeg)

\* the content of a byte segregate has not written
Stale == 0 - 2

InitSegregate ==
    /\ requested_size = min_alloc_size
    /\ max_size_ = 0
    /\ start_size_ = 1
    /\ arena = ArenaWords
    /\ facade = "segregated_storage"
    /\ handles = <<>>
    /\ parked = <<>>
    /\ cur = 0
    /\ pc = <<>>
    /\ tagof = <<>>
    /\ frame = <<>>
    /\ initalized = <<>>
    /\ mu = <<>>
    /\ built = <<>>
    /\ \E block \in SegBlocks : \E partition_sz \in SegParts :
       \E sz \in partition_sz .. MaxSeg : \E end \in SegEnds :
            pending = [block |-> block, sz |-> sz,
                       partition_sz |-> partition_sz, end |-> end]
    /\ next_size_ = start_size_
    /\ first_ = NULL
    /\ list_ = pod_null
    /\ mem = [a \in SegAddrs |-> Stale]
    /\ sys = {}
    /\ held = {}
    /\ last = Call("", NULL, 0, NULL, FALSE, <<>>, {}, <<>>, FALSE)

Segregate ==
    /\ last.op = ""
    /\ LET r == segregate_stmts(mem, pending.block, pending.sz,
                                pending.partition_sz, pending.end)
       IN  /\ mem' = r.mem
           /\ last' = Call("segregate", pending.block, pending.sz, r.ret,
                           FALSE, <<>>, {}, <<>>, FALSE)
    /\ UNCHANGED <<Config, next_size_, first_, list_, sys, held>>

NextSegregate == Segregate

SpecSegregate == InitSegregate /\ [][NextSegregate]_vars

\* release_memory followed pass by pass: pending holds the locals of the
\* call while it runs
Setup == <<requested_size, start_size_, max_size_, arena, facade, handles,
           parked, cur, Singletons>>

Sweeping == DOMAIN pending # {}

InitSweep ==
    /\ \E p \in PoolParams : requested_size = p[1] /\ max_size_ = p[2]
    /\ start_size_ \in 1 .. MaxStart
    /\ arena = SweepWords
    /\ facade = "pool"
    /\ Direct
    /\ Fresh

\* the declarations before the while loop
SweepBegin ==
    /\ ~Sweeping
    /\ pending' = [ptr |-> list_, prev |-> pod_null, free_p |-> first_,
                   prev_free_p |-> NULL, mem |-> mem, first |-> first_,
                   list |-> list_, sys |-> sys, freed |-> {}, ret |-> FALSE]
    /\ UNCHANGED <<Setup, next_size_, first_, list_, mem, sys, held, last>>

\* one pass of the while loop
SweepPass ==
    /\ Sweeping
    /\ valid(pending.ptr)
    /\ pending.free_p # NULL
    /\ pending' = release_body(pending)
    /\ UNCHANGED <<Setup, next_size_, first_, list_, mem, sys, held, last>>

\* the exit of the loop, next_size_ = start_size_ and the return
SweepEnd ==
    /\ Sweeping
    /\ ~valid(pending.ptr) \/ pending.free_p = NULL
    /\ mem' = pending.mem
    /\ first_' = pending.first
    /\ list_' = pending.list
    /\ sys' = pending.sys
    /\ next_size_' = start_size_
    /\ last' = SweepCall("release_memory", pending.ret, pending.freed)
    /\ pending' = <<>>
    /\ UNCHANGED <<Setup, held>>

OrderedCall ==
    /\ ~Sweeping
    /\ \/ OrderedAllocate
       \/ OrderedAllocateN
       \/ OrderedDeallocate
       \/ OrderedDeallocateN

NextSweep ==
    \/ OrderedCall
    \/ SweepBegin
    \/ SweepPass
    \/ SweepEnd

SpecSweep == InitSweep /\ [][NextSweep]_vars

\* release_memory followed pass by pass on a pool on which the unordered
\* calls are used as well
MixedCall ==
    /\ ~Sweeping
    /\ \/ Allocate
       \/ OrderedAllocateN
       \/ Deallocate
       \/ DeallocateN
       \/ OrderedDeallocate

NextMixed ==
    \/ MixedCall
    \/ SweepBegin
    \/ SweepPass
    \/ SweepEnd

SpecMixed == InitSweep /\ [][NextMixed]_vars

\* ordered_allocate(n) with small n and with the smallest n whose product
\* with the requested size does not fit size_type
WideN == {1, 2, SizeMod \div requested_size + 1}

OrderedAllocateWide == \E n \in WideN : OrderedAllocateNOf(n)

NextWide ==
    \/ OrderedAllocateWide
    \/ Allocate
    \/ OrderedDeallocate
    \/ ReleaseMemory

SpecWide == Init /\ [][NextWide]_vars

SpecTrip == InitTrip /\ [][NextHoles]_vars

\* ------------------------------------------------------------------------
\* singleton_pool in thread-safe mode: the calls of the threads, step by step
\* ------------------------------------------------------------------------
Threads == 1 .. MaxThreads

\* what the thread-safe calls leave alone
Outside == <<Params, handles, last>>

\* which pool the members in focus belong to, and the other pools
Focus == <<parked, cur>>

\* a thread that is in no call
Idle == [op |-> "", arg |-> NULL, ret |-> NULL, m |-> <<>>, first |-> NULL]

Goto(t, l) == pc' = [pc EXCEPT ![t] = l]

\* pool_type& p = get_pool(): the call of thread t on the singleton pool g
Enter(t, g, op, arg) ==
    /\ pc[t] = "idle"
    /\ Goto(t, "load1")
    /\ tagof' = [tagof EXCEPT ![t] = g]
    /\ frame' = [frame EXCEPT ![t] = [Idle EXCEPT !.op = op, !.arg = arg]]

\* if (!initalized.load())
Load1(t) ==
    /\ pc[t] = "load1"
    /\ Goto(t, IF initalized[tagof[t]] THEN "lock2" ELSE "lock1")
    /\ UNCHANGED <<Outside, Focus, tagof, frame, initalized, mu, built, next_size_,
                   first_, list_, mem, sys, held>>

\* lock_guard<mutex> lock(mu())
Lock1(t) ==
    /\ pc[t] = "lock1"
    /\ mu[tagof[t]] = 0
    /\ mu' = [mu EXCEPT ![tagof[t]] = t]
    /\ Goto(t, "load2")
    /\ UNCHANGED <<Outside, Focus, tagof, frame, initalized, built, next_size_,
                   first_, list_, mem, sys, held>>

\* a second test that is not made
Load2_no_recheck(t) ==
    /\ pc[t] = "load2"
    /\ Goto(t, "new")
    /\ UNCHANGED <<Outside, Focus, tagof, frame, initalized, mu, built, next_size_,
                   first_, list_, mem, sys, held>>

\* if (!initalized.load()), under the mutex
Load2(t) ==
    /\ pc[t] = "load2"
    /\ Goto(t, IF initalized[tagof[t]] THEN "unlock1" ELSE "new")
    /\ UNCHANGED <<Outside, Focus, tagof, frame, initalized, mu, built, next_size_,
                   first_, list_, mem, sys, held>>

\* new (&pool_impl()) pool_type(NextSize, MaxSize): the storage of the tag
\* of the call receives the members of an empty pool
New(t) ==
    /\ pc[t] = "new"
    /\ built' = [built EXCEPT ![tagof[t]] = @ + 1]
    /\ IF cur = 0 \/ cur = tagof[t]
       THEN /\ cur' = tagof[t]
            /\ next_size_' = FreshMembers.next_size
            /\ first_' = FreshMembers.first
            /\ list_' = FreshMembers.list
            /\ UNCHANGED parked
       ELSE /\ parked' = Park(parked, tagof[t], FreshMembers)
            /\ UNCHANGED <<cur, next_size_, first_, list_>>
    /\ Goto(t, "store")
    /\ UNCHANGED <<Outside, tagof, frame, initalized, mu, mem, sys, held>>

\* initalized.store(true, memory_order_release)
StoreInit(t) ==
    /\ pc[t] = "store"
    /\ initalized' = [initalized EXCEPT ![tagof[t]] = TRUE]
    /\ Goto(t, "unlock1")
    /\ UNCHANGED <<Outside, Focus, tagof, frame, mu, built, next_size_, first_,
                   list_, mem, sys, held>>

\* a get_pool that keeps its lock_guard until the caller returns
Unlock1_keeps(t) ==
    /\ pc[t] = "unlock1"
    /\ Goto(t, "lock2")
    /\ UNCHANGED <<Outside, Focus, tagof, frame, initalized, mu, built,
                   next_size_, first_, list_, mem, sys, held>>

\* the end of the scope of the lock_guard of get_pool
Unlock1(t) ==
    /\ pc[t] = "unlock1"
    /\ mu' = [mu EXCEPT ![tagof[t]] = 0]
    /\ Goto(t, "lock2")
    /\ UNCHANGED <<Outside, Focus, tagof, frame, initalized, built, next_size_,
                   first_, list_, mem, sys, held>>

\* a lock that is taken without waiting for its holder
Lock2_no_wait(t) ==
    /\ pc[t] = "lock2"
    /\ mu' = [mu EXCEPT ![tagof[t]] = t]
    /\ frame' = [frame EXCEPT ![t].m = mem, ![t].first = first_]
    /\ Goto(t, "call")
    /\ UNCHANGED <<Outside, Focus, tagof, initalized, built, next_size_, first_,
                   list_, mem, sys, held>>

\* auto lock = lock_guard<mutex_type>(mu()); the frame keeps the free list
\* the call finds
Lock2(t) ==
    /\ pc[t] = "lock2"
    /\ mu[tagof[t]] = 0
    /\ mu' = [mu EXCEPT ![tagof[t]] = t]
    /\ frame' = [frame EXCEPT ![t].m = mem, ![t].first = first_]
    /\ Goto(t, "call")
    /\ UNCHANGED <<Outside, Focus, tagof, initalized, built, next_size_, first_,
                   list_, mem, sys, held>>

\* the return of the call: the lock_guard releases the mutex, and the
\* caller holds what allocate() returned
Unlock2(t) ==
    /\ pc[t] = "unlock2"
    /\ mu' = [mu EXCEPT ![tagof[t]] = 0]
    /\ held' = IF frame[t].op = "allocate" /\ frame[t].ret # NULL
               THEN held \cup {One(frame[t].ret)}
               ELSE held
    /\ frame' = [frame EXCEPT ![t] = Idle]
    /\ Goto(t, "idle")
    /\ UNCHANGED <<Outside, Focus, tagof, initalized, built, next_size_, first_,
                   list_, mem, sys>>

\* get_pool(true_type) and the two ends of the lock of the call
GetPool(t) ==
    \/ Load1(t)
    \/ Lock1(t)
    \/ Load2(t)
    \/ New(t)
    \/ StoreInit(t)
    \/ Unlock1(t)
    \/ Lock2(t)
    \/ Unlock2(t)

\* the pool call of a singleton_pool function, taken as one step
PoolCall(t) ==
    /\ pc[t] = "call"
    /\ Goto(t, "unlock2")
    /\ UNCHANGED <<Outside, Focus, tagof, frame, initalized, mu, built, next_size_,
                   first_, list_, mem, sys, held>>

\* a call of purge_memory or of another function of a singleton pool
EnterAny(t) ==
    \E g \in DOMAIN initalized :
    \E op \in {"purge_memory", "is_from"} :
        /\ Enter(t, g, op, NULL)
        /\ UNCHANGED <<Outside, Focus, initalized, mu, built, next_size_, first_,
                       list_, mem, sys, held>>

InitThreads(tags) ==
    /\ handles = <<>>
    /\ parked = <<>>
    /\ cur = 0
    /\ pc = [t \in Threads |-> "idle"]
    /\ tagof = [t \in Threads |-> 1]
    /\ frame = [t \in Threads |-> Idle]
    /\ initalized = [g \in 1 .. tags |-> FALSE]
    /\ mu = [g \in 1 .. tags |-> 0]
    /\ built = [g \in 1 .. tags |-> 0]
    /\ pending = <<>>

\* singleton pools with different tags, called by the threads
InitSingleton ==
    /\ \E p \in PoolParams : requested_size = p[1] /\ max_size_ = p[2]
    /\ start_size_ \in 1 .. MaxStart
    /\ arena = ArenaWords
    /\ facade = "singleton_pool"
    /\ InitThreads(MaxTags)
    /\ Fresh

NextSingleton ==
    \E t \in Threads :
        \/ EnterAny(t)
        \/ GetPool(t)
        \/ PoolCall(t)

SpecSingleton == InitSingleton /\ [][NextSingleton]_vars

\* the steps of a thread that wait for nothing
Run(t) ==
    \/ Load1(t)
    \/ Load2(t)
    \/ New(t)
    \/ StoreInit(t)
    \/ Unlock1(t)
    \/ PoolCall(t)
    \/ Unlock2(t)

\* every thread goes on running, and a mutex that is free again and again
\* is given to each thread that waits for it
FairThreads ==
    \A t \in Threads :
        /\ WF_vars(Run(t))
        /\ SF_vars(Lock1(t))
        /\ SF_vars(Lock2(t))

SpecFair == InitSingleton /\ [][NextSingleton]_vars /\ FairThreads

\* allocate() and deallocate(chunk) of one singleton pool, statement by
\* statement
EnterAllocate(t) ==
    /\ Enter(t, 1, "allocate", NULL)
    /\ UNCHANGED <<Outside, Focus, initalized, mu, built, next_size_, first_, list_,
                   mem, sys, held>>

\* the caller gives up the chunk when it calls deallocate
EnterDeallocate(t) ==
    \E h \in held :
        /\ Enter(t, 1, "deallocate", h.p)
        /\ held' = held \ {h}
        /\ UNCHANGED <<Outside, Focus, initalized, mu, built, next_size_, first_,
                       list_, mem, sys>>

\* pool::allocate: if (!store().empty())
AllocTest(t) ==
    /\ pc[t] = "call"
    /\ frame[t].op = "allocate"
    /\ Goto(t, IF first_ # NULL THEN "a_read" ELSE "a_grow")
    /\ UNCHANGED <<Outside, Focus, tagof, frame, initalized, mu, built, next_size_,
                   first_, list_, mem, sys, held>>

\* return allocate_need_resize()
AllocGrow(t) ==
    /\ pc[t] = "a_grow"
    /\ \E r1 \in SysChoices(sys, pod_size(next_size_)) :
       \E r2 \in Answers(r1, next_size_ > 4, pod_size(next_size_ \div 2)) :
            LET r == allocate_need_resize(r1, r2)
            IN  /\ Apply(r)
                /\ frame' = [frame EXCEPT ![t].ret = r.ret]
    /\ Goto(t, "unlock2")
    /\ UNCHANGED <<Outside, Focus, tagof, initalized, mu, built, held>>

\* segregated_storage::allocate: void* ret = first_
AllocRead(t) ==
    /\ pc[t] = "a_read"
    /\ frame' = [frame EXCEPT ![t].ret = first_]
    /\ Goto(t, "a_pop")
    /\ UNCHANGED <<Outside, Focus, tagof, initalized, mu, built, next_size_, first_,
                   list_, mem, sys, held>>

\* first_ = nextof(first_); return ret
AllocPop(t) ==
    /\ pc[t] = "a_pop"
    /\ first_' = nextof(mem, first_, first_)
    /\ mem' = Drop(mem, {first_})
    /\ Goto(t, "unlock2")
    /\ UNCHANGED <<Outside, Focus, tagof, frame, initalized, mu, built, next_size_,
                   list_, sys, held>>

\* segregated_storage::deallocate: nextof(chunk) = first_
DeallocLink(t) ==
    /\ pc[t] = "call"
    /\ frame[t].op = "deallocate"
    /\ mem' = Store(mem, frame[t].arg, first_)
    /\ Goto(t, "d_head")
    /\ UNCHANGED <<Outside, Focus, tagof, frame, initalized, mu, built, next_size_,
                   first_, list_, sys, held>>

\* first_ = chunk
DeallocHead(t) ==
    /\ pc[t] = "d_head"
    /\ first_' = frame[t].arg
    /\ Goto(t, "unlock2")
    /\ UNCHANGED <<Outside, Focus, tagof, frame, initalized, mu, built, next_size_,
                   list_, mem, sys, held>>

InitLocked ==
    /\ \E p \in PoolParams : requested_size = p[1] /\ max_size_ = p[2]
    /\ start_size_ \in 1 .. MaxStart
    /\ arena = ArenaWords
    /\ facade = "singleton_pool"
    /\ InitThreads(1)
    /\ Fresh

NextLocked ==
    \E t \in Threads :
        \/ EnterAllocate(t)
        \/ EnterDeallocate(t)
        \/ GetPool(t)
        \/ AllocTest(t)
        \/ AllocGrow(t)
        \/ AllocRead(t)
        \/ AllocPop(t)
        \/ DeallocLink(t)
        \/ DeallocHead(t)

SpecLocked == InitLocked /\ [][NextLocked]_vars


FreeList == FreeSeq(mem, first_)

FreeSet == Range(FreeList)

Blocks == BlockSeq(mem, list_)

\* the chunk slots of a block
BlockChunks(b) ==
    {b.ptr + i * alloc_size :
        i \in 0 .. ((element_size(b) \div alloc_size) - 1)}

InBlock(p, b) == pool_is_from(p, b.ptr, element_size(b))

\* the chunks of a region a caller holds
HeldChunks(h) == {h.p + i * alloc_size : i \in 0 .. (h.chunks - 1)}

AllHeld == UNION {HeldChunks(h) : h \in held}

EntirelyFree(b) == BlockChunks(b) \subseteq FreeSet

AllocOps == {"allocate", "ordered_allocate", "ordered_allocate_n"}

SingleAllocOps == {"allocate", "ordered_allocate"}

SingleFreeOps == {"deallocate", "ordered_deallocate"}

FreeOps == {"deallocate", "ordered_deallocate", "deallocate_n",
            "ordered_deallocate_n"}

\* the region the call recorded in c has returned
Returned(c) ==
    IF c.op = "ordered_allocate_n" THEN Arr(c.ret, c.n) ELSE One(c.ret)

\* ------------------------------------------------------------------------
C1_State ==
    /\ FreeSet \cap AllHeld = {}
    /\ Cardinality(FreeSet) = Len(FreeList)
    /\ \A h1, h2 \in held :
            h1 # h2 => HeldChunks(h1) \cap HeldChunks(h2) = {}

C1_Step ==
    (last'.op \in AllocOps /\ last'.ret # NULL)
        => HeldChunks(Returned(last')) \cap (AllHeld \cup FreeSet') = {}

\* C1: after any sequence of valid calls no chunk is both in the free list
\* and held by a caller, no address occurs twice in the free list, no chunk
\* belongs to two regions that are held, and an allocation never returns a
\* chunk that is held already.
C1_NoChunkTwice == [](C1_State) /\ [][C1_Step]_vars

C1_Witness ==
    /\ last.op = "release_memory"
    /\ last.flag
    /\ held # {}
    /\ FreeList # <<>>

\* ------------------------------------------------------------------------
\* C2: every address that is held or in the free list lies in the useful
\* range of exactly one block of the block list, at a multiple of the
\* rounded chunk size from the start of that block.
C2_Containment ==
    \A p \in AllHeld \cup FreeSet :
        /\ Cardinality({i \in DOMAIN Blocks : InBlock(p, Blocks[i])}) = 1
        /\ \A i \in DOMAIN Blocks :
                InBlock(p, Blocks[i])
                    => (p - Blocks[i].ptr) % alloc_size = 0

C2_Witness ==
    /\ Len(Blocks) >= 2
    /\ FreeSet # {}
    /\ \E h \in held : h.chunks >= 2

\* ------------------------------------------------------------------------
\* C3: in a pool used through the ordered calls only, the free list and the
\* starts of the blocks of the block list are strictly ascending.
C3_Ordered ==
    /\ Ascending(FreeList)
    /\ Ascending([i \in DOMAIN Blocks |-> Blocks[i].ptr])

C3_Witness ==
    /\ last.op = "ordered_deallocate"
    /\ first_ # last.arg
    /\ Len(Blocks) >= 2

\* ------------------------------------------------------------------------
C4_Back ==
    /\ (last'.op \in SingleFreeOps /\ last'.rt)
            => /\ first_' = last'.arg
               /\ last.reqs = <<>> => FreeSeq(mem', first_') = last.pre
    /\ last'.op = "deallocate" => first_' = last'.arg

C4_Again ==
    /\ (last.op \in SingleFreeOps /\ last.rt
            /\ last'.op \in SingleAllocOps)
            => last'.ret = last.arg
    /\ (last.op = "deallocate" /\ last'.op \in SingleAllocOps)
            => last'.ret = last.arg

\* C4: a chunk that allocate() (ordered_allocate() on an ordered free list)
\* returned and that the next call gives back with deallocate
\* (ordered_deallocate) is the head of the free list again and is what the
\* following single-chunk allocation returns; when the allocation made no
\* request of the system allocator, the free list is the one it found.
C4_RoundTrip == [][C4_Back /\ C4_Again]_vars

C4_Witness ==
    /\ last.op = "ordered_deallocate"
    /\ last.rt
    /\ Len(FreeList) >= 2

\* ------------------------------------------------------------------------
C5_Step ==
    (\/ last'.op \in SingleAllocOps /\ first_ # NULL
     \/ last'.op \in FreeOps)
        => /\ last'.reqs = <<>>
           /\ last'.freed = 0
           /\ sys' = sys
           /\ list_' = list_
           /\ BlockSeq(mem', list_') = Blocks
           /\ UNCHANGED <<next_size_, start_size_, max_size_>>

\* C5: a single-chunk allocation made while the free list is not empty, and
\* every deallocation, makes no call of the system allocator and leaves the
\* block list, next_size, start_size and max_size as they are.
C5_Frame == [][C5_Step]_vars

C5_Witness ==
    /\ last.op = "allocate"
    /\ last.ret # NULL
    /\ last.pre # <<>>
    /\ Len(Blocks) >= 2

\* ------------------------------------------------------------------------
C6_Step ==
    last'.op = "release_memory"
        => /\ \A b \in sys \ sys' : \A p \in AllHeld : ~InBlock(p, b)
           /\ \A p \in AllHeld :
                \E b \in Range(BlockSeq(mem', list_')) :
                    InBlock(p, b) /\ b \in sys'

\* C6: in a pool used through the ordered calls only, release_memory gives
\* no block back that holds a chunk a caller holds: every held chunk is in
\* a block of the block list after the call.
C6_ReleaseKeepsHeld == [][C6_Step]_vars

C6_Witness ==
    /\ last.op = "release_memory"
    /\ last.flag
    /\ held # {}

\* ------------------------------------------------------------------------
Kept(q, released) ==
    SelectSeq(q, LAMBDA p : \A b \in released : ~InBlock(p, b))

C7_Step ==
    last'.op = "release_memory"
        => /\ FreeSeq(mem', first_') = Kept(FreeList, sys \ sys')
           /\ Ascending(FreeSeq(mem', first_'))

\* C7: in a pool used through the ordered calls only, the free list after
\* release_memory is the free list before it without the chunks of the
\* blocks given back, in the same order, and is ascending.
C7_ReleaseFreeList == [][C7_Step]_vars

C7_Witness ==
    /\ last.op = "release_memory"
    /\ last.flag
    /\ FreeList # <<>>
    /\ held # {}

\* ------------------------------------------------------------------------
\* C8: in a pool used through the ordered calls only, no block whose chunks
\* are all free is left after release_memory; when no region is held, no
\* block and no free chunk is left and is_from is false of every address.
C8_ReleaseAllFree ==
    last.op = "release_memory"
        => /\ \A i \in DOMAIN Blocks : ~EntirelyFree(Blocks[i])
           /\ held = {}
                => /\ Blocks = <<>>
                   /\ first_ = NULL
                   /\ sys = {}
                   /\ \A p \in ArenaAddrs : ~is_from(p)

C8_Witness ==
    /\ last.op = "release_memory"
    /\ last.freed >= 2
    /\ held = {}

\* ------------------------------------------------------------------------
C9_Step ==
    last'.op = "release_memory"
        => /\ last'.flag <=> sys' # sys
           /\ last'.freed = Cardinality(sys \ sys')
           /\ sys' \subseteq sys
           /\ (\A i \in DOMAIN Blocks : ~EntirelyFree(Blocks[i]))
                => ~last'.flag /\ sys' = sys

\* C9: release_memory returns true exactly when it gave a block back to the
\* system allocator; with no block, or no block whose chunks are all free,
\* it returns false and gives nothing back.
C9_ReleaseResult == [][C9_Step]_vars

C9_Witness ==
    /\ last.op = "release_memory"
    /\ ~last.flag
    /\ Len(Blocks) >= 2
    /\ FreeList # <<>>

\* ------------------------------------------------------------------------
\* C10: after every call of release_memory next_size equals start_size,
\* whatever it was before and whether or not a block was given back.
C10_ReleaseResets ==
    last.op = "release_memory" => next_size_ = start_size_

C10_Witness ==
    /\ last.op = "release_memory"
    /\ ~last.flag
    /\ last.ns # start_size_

\* ------------------------------------------------------------------------
C11_Step ==
    last'.op = "purge_memory" =>
        /\ BlockSeq(mem', list_') = <<>>
        /\ first_' = NULL
        /\ FreeSeq(mem', first_') = <<>>
        /\ sys' = {}
        /\ Range(Blocks) = sys
        /\ Cardinality(sys) = Len(Blocks)
        /\ last'.freed = Len(Blocks)
        /\ \A p \in ArenaAddrs : ~valid(find_pod_loop(mem', list_', p))

\* C11: after purge_memory the block list and the free list are empty,
\* every block of the block list has been given back to the system
\* allocator, once, whether or not chunks of it were held, and is_from is
\* false of every address.
C11_Purge == [][C11_Step]_vars

C11_Witness ==
    last.op = "purge_memory" /\ last.freed >= 2 /\ last.n >= 1

\* ------------------------------------------------------------------------
\* C12: after every call of purge_memory, also one made on a pool without a
\* block, next_size equals start_size.
C12_PurgeResets ==
    last.op = "purge_memory" => next_size_ = start_size_

\* ------------------------------------------------------------------------
\* number of chunks of the block requested when j blocks exist
ServedChunks(j) == start_size_ * 2 ^ j

C13_Step ==
    last'.op = "allocate" =>
        LET chunks == ServedChunks(Cardinality(sys))
        IN  /\ next_size_ = chunks
            /\ last'.reqs # <<>> <=> first_ = NULL
            /\ first_ = NULL =>
                  /\ last'.reqs =
                        <<[size |-> chunks * alloc_size + min_alloc_size
                                      + sizeof_size_type,
                           ok |-> TRUE]>>
                  /\ list_'.sz = last'.reqs[1].size
                  /\ Cardinality(BlockChunks(list_')) = chunks
                  /\ next_size_' = 2 * chunks
            /\ first_ # NULL => next_size_' = next_size_ /\ sys' = sys

\* the run with chunk size 16 and next_size 4
C13_Numbers ==
    (last'.op = "allocate" /\ requested_size = 16 /\ start_size_ = 4) =>
        /\ alloc_size = 16
        /\ Cardinality(sys) = 0 => last'.reqs = <<[size |-> 80, ok |-> TRUE]>>
        /\ (Cardinality(sys) = 1 /\ first_ = NULL) =>
                last'.reqs = <<[size |-> 144, ok |-> TRUE]>>
        /\ \A k \in 5 .. 10 :
                Cardinality(held) = k - 1 =>
                    /\ Len(BlockSeq(mem', list_')) = 2
                    /\ last'.ret = list_'.ptr + (k - 5) * 16

\* C13: with max_size 0 and every request served, allocate() on a fresh pool
\* requests a block only when the free list is empty, the j-th block with
\* start_size * 2^j chunks and start_size * 2^j * alloc_size + min_alloc_size
\* + sizeof(size_type) bytes, and next_size doubles after each block; with
\* chunk size 16 and next_size 4 the requests are 80 and 144 bytes and the
\* 5th to 10th chunks returned are the first six of the second block,
\* ascending.
C13_Doubling == [][C13_Step /\ C13_Numbers]_vars

C13_Witness ==
    /\ requested_size = 16 /\ start_size_ = 4
    /\ last.op = "allocate" /\ Cardinality(held) = 10
    /\ last.ret = list_.ptr + 5 * 16

\* ------------------------------------------------------------------------
\* a request of the call recorded in c was served: the call obtained a block
GotBlock(c) == \E i \in DOMAIN c.reqs : c.reqs[i].ok

\* C14: in a pool with max_size # 0, after every allocation that obtained a
\* block next_size is at most max_size * requested_size / alloc_size.
C14_Clamp ==
    (max_size_ # 0 /\ last.op \in AllocOps /\ GotBlock(last)) =>
        next_size_ <= (max_size_ * requested_size) \div alloc_size

\* ------------------------------------------------------------------------
\* bytes of a block of ns chunks
BlockBytes(ns) == ns * alloc_size + min_alloc_size + sizeof_size_type

C15_Step ==
    last'.op \in SingleAllocOps =>
        LET reqs == last'.reqs
        IN  /\ Len(reqs) <= 2
            /\ reqs # <<>> <=> first_ = NULL
            /\ reqs # <<>> => reqs[1].size = BlockBytes(next_size_)
            /\ Len(reqs) = 2 <=>
                  (first_ = NULL /\ ~reqs[1].ok /\ next_size_ > 4)
            /\ Len(reqs) = 2 =>
                  /\ reqs[2].size = BlockBytes(next_size_ \div 2)
                  /\ next_size_' = IF reqs[2].ok THEN 2 * (next_size_ \div 2)
                                   ELSE next_size_ \div 2
            /\ (reqs # <<>> /\ reqs[Len(reqs)].ok) =>
                  /\ last'.ret # NULL
                  /\ Cardinality(sys') = Cardinality(sys) + 1
                  /\ \E b \in sys' \ sys : b.sz = reqs[Len(reqs)].size
            /\ (reqs # <<>> /\ ~reqs[Len(reqs)].ok) =>
                  /\ last'.ret = NULL
                  /\ sys' = sys
                  /\ UNCHANGED <<mem, first_, list_, held>>

\* C15: a call of allocate() or ordered_allocate() makes at most two
\* requests of the system allocator; the second is made only when the first
\* failed and next_size > 4 and asks for a block of next_size / 2 chunks;
\* with next_size <= 4 a failed first request makes the call return null,
\* and so does a failed retry, without a further request.
C15_HalveRetry == [][C15_Step]_vars

C15_Witness ==
    /\ last.op \in SingleAllocOps
    /\ Len(last.reqs) = 2
    /\ last.reqs[2].ok
    /\ last.ret # NULL

\* ------------------------------------------------------------------------
\* the call recorded in c is a single-chunk allocation of a pool with chunk
\* size 16 that found next_size_ = 16 and whose first request failed
S4Call(c) ==
    /\ c.op \in SingleAllocOps
    /\ alloc_size = 16
    /\ c.ns = 16
    /\ c.reqs # <<>>
    /\ ~c.reqs[1].ok

\* what follows the failed first request in scenario S4
S4Retry(c) ==
    /\ Len(c.reqs) = 2
    /\ c.reqs[2].size = 144
    /\ next_size_ = IF c.reqs[2].ok THEN 16 ELSE 8
    /\ ~c.reqs[2].ok => c.ret = NULL

\* C16 as stated: the failed first request of the pool with next_size 16 is
\* one of 288 bytes.
C16_S4_288 == S4Call(last) => last.reqs[1].size = 288 /\ S4Retry(last)

\* C16: the pool with chunk size 16 and next_size 16 first requests 16 * 16
\* + 8 + 8 = 272 bytes; when that request fails it retries with next_size 8
\* and a request of 144 bytes, and returns null when the retry fails too.
C16_S4 == S4Call(last) => last.reqs[1].size = 272 /\ S4Retry(last)

C16_Witness == S4Call(last) /\ ~last.reqs[2].ok /\ last.ret = NULL

\* ------------------------------------------------------------------------
TypedAllocOps == {"pool_allocator::allocate", "fast_pool_allocator::allocate"}

\* C17 as stated: allocate(n) of a facade raises exactly when the pool
\* returned null, so null is never its result.
C17_NullRaises ==
    last.op \in TypedAllocOps => (last.flag <=> last.ret = NULL)

C17_Step ==
    last'.op \in TypedAllocOps =>
        /\ last'.flag <=> (last'.ret = NULL /\ last'.n # 0)
        /\ last'.n = 0 => last'.ret = NULL /\ ~last'.flag
        /\ last'.ret = NULL => UNCHANGED <<held, sys, mem, first_, list_>>
        /\ last'.ret # NULL =>
              /\ held' = held \cup {Arr(last'.ret, last'.n)}
              /\ HeldChunks(Arr(last'.ret, last'.n)) \cap AllHeld = {}

\* C17: allocate(n) of a facade with n # 0 raises an allocation failure
\* exactly when the pool returned null and otherwise returns the address
\* the pool returned; with n = 0 the pool returns null and allocate(0)
\* returns null without raising.
C17_NullRaisesUnlessZero == [][C17_Step]_vars

C17_Witness ==
    last.op \in TypedAllocOps /\ last.flag /\ held # {} /\ last.reqs # <<>>

\* ------------------------------------------------------------------------
\* chunks of the block asked for by the i-th request of the call recorded in
\* c
ReqChunks(c, i) ==
    (c.reqs[i].size - min_alloc_size - sizeof_size_type) \div alloc_size

\* the retry rule with the threshold of the single-chunk calls
C18_Step_Above4 ==
    (last'.op = "ordered_allocate_n" /\ last'.reqs # <<>>) =>
        LET c == last'
            ns0 == ReqChunks(c, 1)
        IN  /\ ns0 >= c.n
            /\ Len(c.reqs) <= 2
            /\ Len(c.reqs) = 2 <=> (~c.reqs[1].ok /\ ns0 > 4)
            /\ Len(c.reqs) = 2 => ReqChunks(c, 2) = Max(ns0 \div 2, c.n)

\* C18 as stated: next_size is raised to at least n, and the retry is made
\* only when next_size > 4, with next_size / 2 but not fewer than n chunks.
C18_RetryAbove4 == [][C18_Step_Above4]_vars

C18_Step ==
    (last'.op = "ordered_allocate_n" /\ last'.reqs # <<>>) =>
        LET c == last'
            num_chunks == fast_ceil_division(c.n * requested_size, alloc_size)
            ns0 == Max(next_size_, num_chunks)
            k == Len(c.reqs)
        IN  /\ allocate_n(mem, first_, num_chunks, alloc_size).ret = NULL
            /\ c.reqs[1].size = BlockBytes(ns0)
            /\ k <= 2
            /\ k = 2 <=> (~c.reqs[1].ok /\ num_chunks < ns0)
            /\ k = 2 => c.reqs[2].size =
                            BlockBytes(Max(ns0 \div 2, num_chunks))
            /\ \A i \in 1 .. k :
                    /\ ReqChunks(c, i) >= num_chunks
                    /\ ReqChunks(c, i) * alloc_size >= c.n * requested_size
            /\ c.reqs[k].ok =>
                    /\ c.ret # NULL
                    /\ \E b \in sys' \ sys :
                          /\ b.ptr = c.ret
                          /\ b.sz = c.reqs[k].size
            /\ ~c.reqs[k].ok =>
                    /\ c.ret = NULL
                    /\ next_size_' = ReqChunks(c, k)
                    /\ sys' = sys

\* C18: when ordered_allocate(n) cannot be served from the free list,
\* next_size is first raised to at least the number of chunks the request
\* needs, ceil(n * requested_size / alloc_size); when the request of the
\* block fails, one retry is made exactly when that number is below
\* next_size (whatever next_size is compared with 4), with next_size
\* halved but not below that number; no block is requested with fewer
\* chunks than the request needs.
C18_RetryNotBelowNeed == [][C18_Step]_vars

C18_Witness ==
    /\ last.op = "ordered_allocate_n"
    /\ Len(last.reqs) = 2
    /\ ReqChunks(last, 1) <= 4
    /\ ReqChunks(last, 2) = fast_ceil_division(last.n * requested_size,
                                               alloc_size)
    /\ ReqChunks(last, 2) > ReqChunks(last, 1) \div 2
    /\ last.reqs[2].ok

\* ------------------------------------------------------------------------
\* the chunks of block b from the k-th on, ascending
ChunksFrom(b, k) ==
    [i \in 1 .. ((element_size(b) \div alloc_size) - k) |->
        b.ptr + (k + i - 1) * alloc_size]

C19_Step ==
    (last'.op = "ordered_allocate_n" /\ GotBlock(last')) =>
        LET new == sys' \ sys
            b == CHOOSE x \in new : TRUE
            num_chunks == fast_ceil_division(last'.n * requested_size,
                                             alloc_size)
            rest == ChunksFrom(b, num_chunks)
            after == FreeSeq(mem', first_')
        IN  /\ Cardinality(new) = 1
            /\ last'.ret = b.ptr
            /\ Len(after) = Len(FreeList) + Len(rest)
            /\ SelectSeq(after, LAMBDA p : InBlock(p, b)) = rest
            /\ SelectSeq(after, LAMBDA p : ~InBlock(p, b)) = FreeList
            /\ Ascending(FreeList) => Ascending(after)

\* scenario S2: chunk size 8, next_size 8, ordered_allocate(3) on an empty
\* pool
C19_S2 ==
    (/\ last'.op = "ordered_allocate_n" /\ last'.n = 3
     /\ requested_size = 8 /\ next_size_ = 8 /\ sys = {}
     /\ last'.reqs = <<[size |-> 80, ok |-> TRUE]>>) =>
        FreeSeq(mem', first_') = [i \in 1 .. 5 |-> last'.ret + (2 + i) * 8]

\* C19: when ordered_allocate(n) creates a block it returns the start of
\* the block, and exactly the chunks of the block after the ones it needs
\* enter the free list, ascending, at their place in the address order;
\* with chunk size 8, next_size 8 and n = 3 on an empty pool, the 5 chunks
\* that follow enter the free list ascending.
C19_NewBlock == [][C19_Step /\ C19_S2]_vars

C19_Witness ==
    /\ last.op = "ordered_allocate_n" /\ GotBlock(last)
    /\ \E i, j \in DOMAIN FreeList :
          /\ i < j
          /\ FreeList[i] < last.ret
          /\ \E b \in sys : b.ptr = last.ret /\ InBlock(FreeList[j], b)

\* ------------------------------------------------------------------------
\* q without the n entries from the i-th on
Without(q, i, n) == SubSeq(q, 1, i - 1) \o SubSeq(q, i + n, Len(q))

\* r is the first of n entries of q that follow one another in q and in
\* memory, s bytes apart, and after is q without them
TakenRun(q, r, n, s, after) ==
    \E i \in 1 .. (Len(q) - n + 1) :
        /\ \A k \in 0 .. (n - 1) : q[i + k] = r + k * s
        /\ after = Without(q, i, n)

C20_State ==
    \A n \in 1 .. MaxRun :
        LET a == allocate_n(mem, first_, n, alloc_size)
        IN  IF a.ret = NULL
            THEN a.mem = mem /\ a.first = first_
            ELSE TakenRun(FreeList, a.ret, n, alloc_size,
                          FreeSeq(a.mem, a.first))

C20_Step ==
    (last'.op = "ordered_allocate_n" /\ last'.reqs = <<>> /\ last'.n # 0
     /\ last'.ret # NULL) =>
        TakenRun(FreeList, last'.ret,
                 fast_ceil_division(last'.n * requested_size, alloc_size),
                 alloc_size, FreeSeq(mem', first_'))

\* C20: on every free list, ordered or not, allocate_n(n, s) with n >= 1
\* returns null and leaves the list as it is, or returns an address r such
\* that r, r + s, ..., r + (n - 1) s were n consecutive entries of the
\* list; those n entries are unlinked and the others keep their order.
C20_AllocateN == [](C20_State) /\ [][C20_Step]_vars

C20_Witness ==
    /\ last.op = "ordered_allocate_n" /\ last.reqs = <<>>
    /\ last.ret # NULL
    /\ Len(last.pre) >= 3
    /\ ~Ascending(last.pre)
    /\ last.ret # last.pre[1]
    /\ last.ret + alloc_size \in Range(last.pre)
    /\ last.ret + alloc_size \notin FreeSet

\* ------------------------------------------------------------------------
\* the addresses at which n chunks of the set free lie one after the other
\* in memory, s bytes apart
RunStarts(free, n, s) ==
    {p \in free : \A k \in 0 .. (n - 1) : p + k * s \in free}

\* r is what a search for n chunks returns on an ordered list with the
\* chunks of free: null when no run exists, else the start of the lowest
\* stretch that is n chunks long or longer
FirstStretch(free, n, s, r) ==
    IF RunStarts(free, n, s) = {}
    THEN r = NULL
    ELSE /\ r \in RunStarts(free, n, s)
         /\ r - s \notin free
         /\ \A p \in RunStarts(free, n, s) : r <= p

C21_State ==
    Ascending(FreeList) =>
        \A n \in 1 .. MaxRun :
            FirstStretch(FreeSet, n, alloc_size,
                         allocate_n(mem, first_, n, alloc_size).ret)

C21_Step ==
    (last'.op = "ordered_allocate_n" /\ Ascending(FreeList)) =>
        LET num_chunks == fast_ceil_division(last'.n * requested_size,
                                             alloc_size)
        IN  IF RunStarts(FreeSet, num_chunks, alloc_size) = {}
            THEN last'.reqs # <<>>
            ELSE /\ last'.reqs = <<>>
                 /\ FirstStretch(FreeSet, num_chunks, alloc_size, last'.ret)

\* C21: on an ordered free list allocate_n(n, s) returns null only when the
\* list holds no n chunks at addresses a, a + s, ..., a + (n - 1) s; when
\* it holds such chunks it returns the start of the first stretch of
\* adjacent chunks, in address order, that is at least n chunks long.
C21_FirstStretch == [](C21_State) /\ [][C21_Step]_vars

C21_Witness ==
    /\ last.op = "ordered_allocate_n" /\ last.reqs = <<>>
    /\ last.n >= 2
    /\ Len(last.pre) >= 4
    /\ last.pre[1] < last.ret
    /\ last.pre[1] + alloc_size \notin Range(last.pre)
    /\ last.ret - alloc_size \notin Range(last.pre)
    /\ last.ret + last.n * alloc_size \in Range(last.pre)

\* ------------------------------------------------------------------------
C22_State ==
    first_ # NULL =>
        allocate_n(mem, first_, 1, alloc_size) = store_allocate(mem, first_)

C22_Step ==
    (/\ last'.op = "ordered_allocate_n"
     /\ fast_ceil_division(last'.n * requested_size, alloc_size) = 1
     /\ first_ # NULL) =>
        LET a == store_allocate(mem, first_)
        IN  /\ last'.ret = a.ret
            /\ mem' = a.mem
            /\ first_' = a.first
            /\ last'.reqs = <<>>

\* C22: on every non-empty free list allocate_n(1, s) returns the address
\* allocate() returns, the head of the list, and leaves the free list
\* allocate() leaves.
C22_OneChunk == [](C22_State) /\ [][C22_Step]_vars

C22_Witness ==
    /\ last.op = "ordered_allocate_n" /\ last.n = 1
    /\ Len(last.pre) >= 2
    /\ ~Ascending(last.pre)
    /\ last.ret = last.pre[1]
    /\ FreeList = Tail(last.pre)

\* ------------------------------------------------------------------------
ZeroOps == {"ordered_allocate_n", "deallocate_n", "ordered_deallocate_n"}

C23_Step ==
    (last'.op \in ZeroOps /\ last'.n = 0) =>
        /\ last'.ret = NULL
        /\ last'.reqs = <<>>
        /\ last'.freed = 0
        /\ UNCHANGED <<mem, first_, list_, next_size_, sys, held>>

\* C23: ordered_allocate(0) returns null, deallocate(p, 0) and
\* ordered_deallocate(p, 0) return; none of the three changes the free
\* list, the block list or next_size or calls the system allocator.
C23_ZeroNoOp == [][C23_Step]_vars

C23_Witness ==
    /\ last.op \in {"deallocate_n", "ordered_deallocate_n"}
    /\ last.n = 0
    /\ last.arg # NULL
    /\ FreeList # <<>>
    /\ next_size_ # start_size_

\* ------------------------------------------------------------------------
\* p lies among the chunks of the block b the system allocator handed out
Useful(p, b) ==
    b.ptr <= p /\ p < b.ptr + b.sz - min_alloc_size - sizeof_size_type

\* p lies in the trailer of b
InTrailer(p, b) ==
    b.ptr + b.sz - min_alloc_size - sizeof_size_type <= p /\ p < b.ptr + b.sz

C24_State ==
    /\ Range(Blocks) = sys
    /\ \A p \in ArenaAddrs :
            /\ is_from(p) <=> \E b \in sys : Useful(p, b)
            /\ p \in AllHeld \cup FreeSet => is_from(p)
            /\ (\E b \in sys : InTrailer(p, b)) => ~is_from(p)

C24_Step ==
    last'.op = "is_from" =>
        /\ last'.flag <=> \E b \in sys : Useful(last'.arg, b)
        /\ UNCHANGED <<mem, first_, list_, next_size_, sys, held>>

\* C24: is_from(chunk) is true exactly when a block of the block list has
\* begin <= chunk < begin + element_size; it is true of every chunk that
\* is allocated or free, false of the addresses of a trailer, and changes
\* nothing of the pool.
C24_IsFrom == [](C24_State) /\ [][C24_Step]_vars

C24_Witness ==
    /\ last.op = "is_from" /\ ~last.flag
    /\ \E b \in sys : InTrailer(last.arg, b) /\ b.ptr # list_.ptr
    /\ \E b \in sys : b.ptr > last.arg
    /\ held # {} /\ FreeList # <<>>

\* ------------------------------------------------------------------------
C25_Step ==
    /\ (last'.op = "fast_pool_allocator::allocate" /\ last'.ret # NULL) =>
            IF last'.n = 1
            THEN \/ last'.reqs # <<>>
                 \/ /\ last'.ret = first_
                    /\ first_' = store_allocate(mem, first_).first
            ELSE \/ last'.reqs # <<>>
                 \/ first_' = allocate_n(mem, first_, num_chunks_of(last'.n),
                                         alloc_size).first
    /\ last'.op = "fast_pool_allocator::deallocate" =>
            LET d == IF last'.n = 1
                     THEN store_deallocate(mem, first_, last'.arg)
                     ELSE ordered_deallocate_n(mem, first_, last'.arg,
                                               num_chunks_of(last'.n),
                                               alloc_size)
            IN  mem' = d.mem /\ first_' = d.first

\* C25: allocate(n) and deallocate(p, n) of the fast facade use allocate()
\* and deallocate(p) of the pool when n = 1 and ordered_allocate(n) and
\* ordered_deallocate(p, n) when n > 1, so that a region obtained from
\* ordered_allocate(n) goes back through the ordered call.
C25_FastPaths == [][C25_Step]_vars

\* ------------------------------------------------------------------------
\* the objects that refer to a pool
Referring == {h \in HandleIds : handles[h] \in PoolIds}

\* every free chunk of the pool with the members m lies among the chunks of
\* a block of that pool
FreeContained(m) ==
    \A p \in Range(FreeSeq(mem, m.first)) :
        \E i \in DOMAIN BlockSeq(mem, m.list) :
            p \in BlockChunks(BlockSeq(mem, m.list)[i])

SameState ==
    \A g, h \in Referring : pool_allocator_eq(g, h) => handles[g] = handles[h]

AllContained == \A k \in ExistingPools : FreeContained(PoolOf(k))

\* C26: any two pool_allocator objects (operator== is true of them) refer
\* to the same pool, also when they were default-constructed separately
\* or constructed from a rebound allocator, and a region allocated through
\* one and deallocated through another stays inside the blocks of the
\* pool whose free list it enters.
C26_EqualSamePool == SameState /\ AllContained

\* ------------------------------------------------------------------------
\* the blocks of the pool k, as its block list gives them
BlocksOf(k) == Range(BlockSeq(mem, PoolOf(k).list))

C27_State ==
    /\ \A h \in Referring : handles[h] \in ExistingPools
    /\ \A k \in ExistingPools : Owners(k) # {}
    /\ sys = UNION {BlocksOf(k) : k \in ExistingPools}
    /\ \A j, k \in ExistingPools : j # k => BlocksOf(j) \cap BlocksOf(k) = {}

C27_Step ==
    /\ last'.op \in {"pool_allocator(copy)", "pool_allocator(move)"} =>
            /\ ExistingPools' = ExistingPools
            /\ \A k \in ExistingPools : PoolOf(k)' = PoolOf(k)
            /\ \E g \in HandleIds : handles'[last'.arg] = handles[g]
            /\ UNCHANGED <<mem, sys, held>>
    /\ last'.op = "pool_impl" =>
            /\ cur' = handles[last'.arg]
            /\ \A g \in Owners(handles[last'.arg]) : handles'[g] = cur'
            /\ ExistingPools' = ExistingPools
            /\ \A k \in ExistingPools : PoolOf(k)' = PoolOf(k)
    /\ last'.op = "pool_allocator::allocate" =>
            \A k \in ExistingPools \ {cur} : PoolOf(k)' = PoolOf(k)
    /\ last'.op = "~pool_allocator" =>
            LET k == handles[last'.arg]
            IN  IF k \in PoolIds /\ Owners(k) = {last'.arg}
                THEN /\ last'.flag
                     /\ ExistingPools' = ExistingPools \ {k}
                     /\ sys' = sys \ BlocksOf(k)
                     /\ last'.freed = Cardinality(BlocksOf(k))
                     /\ \A j \in ExistingPools \ {k} : PoolOf(j)' = PoolOf(j)
                ELSE /\ ~last'.flag
                     /\ ExistingPools' = ExistingPools
                     /\ \A j \in ExistingPools : PoolOf(j)' = PoolOf(j)
                     /\ UNCHANGED <<mem, sys, held>>

AfterGetPool == {"lock2", "call", "a_read", "a_grow", "a_pop", "d_head",
                 "unlock2"}

Tags == DOMAIN initalized

C28_State ==
    /\ \A g \in Tags :
        /\ built[g] <= 1
        /\ initalized[g] => built[g] = 1
        /\ built[g] = 1 <=> g \in ExistingPools
    /\ \A t \in Threads :
        pc[t] \in AfterGetPool =>
            initalized[tagof[t]] /\ built[tagof[t]] = 1

C28_Step ==
    \A g \in Tags :
        /\ built'[g] >= built[g]
        /\ initalized[g] => initalized'[g]
        /\ g \in ExistingPools => g \in ExistingPools'

\* C28: in thread-safe mode the pool of a tag is constructed at most once
\* under every interleaving of the first calls, it has been constructed
\* exactly once whenever the flag is set, no call of any thread is past
\* get_pool before the construction of its pool is complete and published,
\* no later step (a purge_memory call included) constructs it again,
\* clears the flag or removes the pool, and the pools of two tags are two
\* pools, each constructed once
C28_OnceOnly == [](C28_State) /\ [][C28_Step]_vars

\* the pool of one tag is in use, a thread has just constructed the pool
\* of the other tag, and the other thread, which also found the flag
\* clear, waits for the mutex
C28_Witness ==
    \E t \in Threads : \E u \in Threads \ {t} :
        /\ tagof[t] = tagof[u]
        /\ pc[t] = "store"
        /\ pc[u] = "lock1"
        /\ \E g \in Tags \ {tagof[t]} : initalized[g] /\ built[g] = 1


\* the locations at which a thread holds the mutex of its pool
Critical == {"load2", "new", "store", "unlock1", "call", "a_read", "a_grow",
             "a_pop", "d_head", "unlock2"}

\* the thread at one of these locations has not written yet
Unwritten == {"call", "a_read", "a_grow"}

C29_Exclusive == \A t \in Threads : pc[t] \in Critical => mu[tagof[t]] = t

\* what the call of thread t has done equals the whole operation applied
\* to the free list the call found when it took the lock
C29_Serial ==
    \A t \in Threads :
        /\ pc[t] \in Unwritten =>
                mem = frame[t].m /\ first_ = frame[t].first
        /\ pc[t] = "a_pop" =>
                /\ mem = frame[t].m
                /\ first_ = frame[t].first
                /\ frame[t].ret = first_
        /\ pc[t] = "d_head" =>
                /\ mem = store_deallocate(frame[t].m, frame[t].first,
                                          frame[t].arg).mem
                /\ first_ = frame[t].first
        /\ pc[t] = "unlock2" /\ frame[t].op = "deallocate" =>
                LET d == store_deallocate(frame[t].m, frame[t].first,
                                          frame[t].arg)
                IN  mem = d.mem /\ first_ = d.first
        /\ pc[t] = "unlock2" /\ frame[t].op = "allocate"
                /\ frame[t].first # NULL =>
                LET a == store_allocate(frame[t].m, frame[t].first)
                IN  frame[t].ret = a.ret /\ mem = a.mem /\ first_ = a.first

\* a chunk an allocate call is about to return is in a block of the pool,
\* is not on the free list, is held by no caller and is the result of no
\* other call
C29_Distinct ==
    \A t \in Threads :
        pc[t] = "unlock2" /\ frame[t].op = "allocate"
            /\ frame[t].ret # NULL =>
            /\ is_from(frame[t].ret)
            /\ frame[t].ret \notin FreeSet
            /\ \A h \in held : h.p # frame[t].ret
            /\ \A u \in Threads \ {t} :
                    pc[u] \in {"a_pop", "unlock2"} =>
                        frame[u].ret # frame[t].ret

\* C29: under the lock the calls on one pool exclude each other, every
\* call acts on the pool as one whole operation applied to the state it
\* found when it took the lock (so the results of any interleaving are
\* those of the calls in the order in which they took the lock), and no
\* two allocations receive the same chunk
C29_Serialized == C29_Exclusive /\ C29_Serial /\ C29_Distinct

\* an allocate call has read the head of the free list and is about to
\* unlink it while the allocate call of another thread waits for the lock,
\* and a caller holds a chunk of an earlier call
C29_Witness ==
    \E t \in Threads : \E u \in Threads \ {t} :
        /\ pc[t] = "a_pop"
        /\ pc[u] = "lock2"
        /\ frame[u].op = "allocate"
        /\ held # {}


\* the calls that return the address of a chunk
ChunkOps == {"allocate", "ordered_allocate", "ordered_allocate_n"}

\* the rounded size is a multiple of min_align, is not below
\* max(requested_size, min_alloc_size), and the multiple before it is
C30_Rounded ==
    /\ alloc_size % min_align = 0
    /\ alloc_size >= Max(requested_size, min_alloc_size)
    /\ alloc_size - min_align < Max(requested_size, min_alloc_size)

\* C30: the chunk size is the smallest multiple of min_align that is at
\* least max(requested_size, min_alloc_size), and, the blocks of the system
\* allocator starting at multiples of min_align, every address returned by
\* allocate, ordered_allocate and ordered_allocate(n) is a multiple of
\* min_align
C30_Aligned ==
    /\ C30_Rounded
    /\ (\A b \in sys : b.ptr % min_align = 0) =>
            (last.op \in ChunkOps /\ last.ret # NULL =>
                last.ret % min_align = 0)

\* a pool whose requested size is not a multiple of min_align has returned
\* a chunk that is not the first of its block
C30_Witness ==
    /\ requested_size % min_align # 0
    /\ requested_size > min_alloc_size
    /\ last.op \in ChunkOps
    /\ last.ret # NULL
    /\ \E b \in sys : b.ptr < last.ret /\ last.ret < b.ptr + b.sz


\* the starts of the whole chunks of the block handed to segregate
SegChunks ==
    {pending.block + i * pending.partition_sz :
        i \in 0 .. ((pending.sz \div pending.partition_sz) - 1)}

\* C31: segregate(block, total_size, chunk_size, end) with total_size >=
\* chunk_size returns block and threads floor(total_size / chunk_size)
\* chunks: each chunk but the last points to the chunk chunk_size further,
\* the last one (the only one when total_size = chunk_size) points to end,
\* and no other byte is written
C31_Segregate ==
    last.op = "segregate" =>
        /\ last.ret = pending.block
        /\ DOMAIN mem = SegAddrs
        /\ \A a \in SegAddrs :
            mem[a] = IF a \notin SegChunks THEN Stale
                     ELSE IF a + pending.partition_sz \in SegChunks
                          THEN a + pending.partition_sz
                          ELSE pending.end

\* a block of several chunks and some bytes more has been segregated
C31_Witness ==
    /\ last.op = "segregate"
    /\ pending.sz \div pending.partition_sz >= 2
    /\ pending.sz % pending.partition_sz # 0


\* the free list the sweep works on, and the start of the current block
SweepFree == FreeSeq(pending.mem, pending.first)

AtOrBeyond == {i \in 1 .. Len(SweepFree) : SweepFree[i] >= pending.ptr.ptr}

Before == {i \in 1 .. Len(SweepFree) : SweepFree[i] < pending.ptr.ptr}

\* C32: at the start of every pass of the sweep of release_memory over an
\* ordered pool, free_p is the first free chunk at or beyond the start of
\* the current block (null when there is none), prev_free_p is the last
\* free chunk before the current block (null when there is none), and prev
\* is the block whose next is the current block, invalid when the current
\* block is the head of the list
C32_SweepInvariant ==
    Sweeping /\ valid(pending.ptr) =>
        /\ pending.free_p =
                IF AtOrBeyond = {} THEN NULL
                ELSE SweepFree[CHOOSE i \in AtOrBeyond :
                                    \A j \in AtOrBeyond : i <= j]
        /\ pending.prev_free_p =
                IF Before = {} THEN NULL
                ELSE SweepFree[CHOOSE i \in Before :
                                    \A j \in Before : i >= j]
        /\ IF pending.ptr = pending.list
           THEN ~valid(pending.prev)
           ELSE /\ valid(pending.prev)
                /\ pod_next(pending.mem, pending.prev) = pending.ptr

\* the sweep has kept a block and is at the block after it, and free
\* chunks lie in the block it kept and in the current block
C32_Witness ==
    /\ Sweeping
    /\ valid(pending.ptr)
    /\ valid(pending.prev)
    /\ pending.prev_free_p # NULL
    /\ pending.free_p # NULL


\* next_size_ after a call of allocate or ordered_allocate that returned
\* null: as it was, or halved when the request was made a second time
NullOne ==
    IF Len(last'.reqs) = 2 THEN next_size_ \div 2 ELSE next_size_

\* next_size_ after a call of ordered_allocate(n) that returned null: raised
\* to the number of chunks of the request when it was below, and, when the
\* request was made a second time, halved but not below that number
NullRun ==
    LET num_chunks == num_chunks_of(last'.n)
        raised == Max(next_size_, num_chunks)
    IN  IF Len(last'.reqs) = 2 THEN Max(raised \div 2, num_chunks)
        ELSE raised

C33_Step ==
    /\ last'.op \in ChunkOps /\ last'.ret = NULL =>
        /\ mem' = mem
        /\ first_' = first_
        /\ list_' = list_
        /\ sys' = sys
        /\ held' = held
        /\ start_size_' = start_size_ /\ max_size_' = max_size_
        /\ next_size_' =
              IF last'.op = "ordered_allocate_n" THEN NullRun ELSE NullOne
    /\ last'.op \in ChunkOps /\ last'.reqs # <<>> =>
        last'.reqs[1].size =
            pod_size(IF last'.op = "ordered_allocate_n"
                     THEN Max(next_size_, num_chunks_of(last'.n))
                     ELSE next_size_)

\* C33: a call of allocate, ordered_allocate or ordered_allocate(n) that
\* returns null leaves the block list, the free list and the memory of the
\* pool as they were and changes no field but next_size_ (halved by the
\* second request, raised to the number of chunks needed by
\* ordered_allocate(n)); the value it leaves is the one the next call that
\* requests a block starts from
C33_NullKeeps == [][C33_Step]_vars

\* ordered_allocate(n) has returned null on a pool with free chunks and
\* has left another next_size_ than it found
C33_Witness ==
    /\ last.op = "ordered_allocate_n"
    /\ last.ret = NULL
    /\ last.pre # <<>>
    /\ valid(list_)
    /\ next_size_ # last.ns


\* the loop of release_memory has come to its end
SweepDone == Sweeping /\ (~valid(pending.ptr) \/ pending.free_p = NULL)

\* the chunks of the blocks the sweep has given back
Given == UNION {BlockChunks(b) : b \in pending.freed}

\* C34: also when the unordered calls have been used and the free list and
\* the block list are in no order, release_memory gives back no block with
\* a chunk a caller holds, the blocks it keeps are the other blocks of the
\* pool, and the free list it leaves is the free list it found without the
\* chunks of the blocks given back, in the same order; a block whose chunks
\* are all free may be kept
C34_ReleaseUnordered ==
    SweepDone =>
        /\ \A b \in pending.freed : BlockChunks(b) \subseteq FreeSet
        /\ AllHeld \cap Given = {}
        /\ pending.sys = sys \ pending.freed
        /\ BlockSeq(pending.mem, pending.list) =
                SelectSeq(Blocks, LAMBDA b : b \notin pending.freed)
        /\ FreeSeq(pending.mem, pending.first) =
                SelectSeq(FreeList, LAMBDA p : p \notin Given)

\* the sweep is over: it has given a block back and kept a block whose
\* chunks are all free, in a pool with a held chunk whose free list and
\* block list are not in the order of the addresses
C34_Witness ==
    /\ SweepDone
    /\ pending.ret
    /\ held # {}
    /\ ~Ascending(FreeList)
    /\ ~Ascending([i \in DOMAIN Blocks |-> Blocks[i].ptr])
    /\ \E b \in pending.sys : EntirelyFree(b)


\* the bytes of a request of n objects
Needed == last.n * requested_size

\* C35: for every n of size_type a non-null result of ordered_allocate(n)
\* is the start of n * requested_size bytes that lie in one block of the
\* pool and hold no free chunk and no chunk of another held region
C35_EnoughBytes ==
    last.op = "ordered_allocate_n" /\ last.ret # NULL =>
        /\ \E i \in DOMAIN Blocks :
                /\ Blocks[i].ptr <= last.ret
                /\ last.ret + Needed <= Blocks[i].ptr + element_size(Blocks[i])
        /\ \A p \in FreeSet : p < last.ret \/ p >= last.ret + Needed
        /\ \A h \in held :
                h.p # last.ret =>
                    \A p \in HeldChunks(h) :
                        p < last.ret \/ p >= last.ret + Needed


\* the least number of chunks that hold n objects, n * requested_size being
\* the product as size_type holds it
CeilChunks(n) ==
    CHOOSE k \in 0 .. n :
        /\ k * alloc_size >= Wrap(n * requested_size)
        /\ k = 0 \/ (k - 1) * alloc_size < Wrap(n * requested_size)

C36_Step ==
    /\ last'.op = "ordered_allocate_n" /\ last'.ret # NULL
            /\ last'.reqs = <<>> =>
            Len(FreeSeq(mem', first_')) =
                Len(FreeList) - CeilChunks(last'.n)
    /\ last'.op = "ordered_deallocate_n" =>
            Len(FreeSeq(mem', first_')) =
                Len(FreeList) + CeilChunks(last'.n)
    /\ last'.op = "ordered_deallocate_n" /\ last'.rt
            /\ last.reqs = <<>> =>
            FreeSeq(mem', first_') = last.pre

\* C36: ordered_allocate(n) takes and ordered_deallocate(p, n) gives back
\* the same number of chunks, the least number that holds n objects; when
\* ordered_allocate(n) was served from an ordered free list without a new
\* block, ordered_deallocate(p, n) of its result leaves the free list the
\* sequence it was before the allocation
C36_ArrayRoundTrip == [][C36_Step]_vars

\* a region of several objects whose size is not a whole number of chunks
\* has been taken from between free chunks and given back
C36_Witness ==
    /\ last.op = "ordered_deallocate_n"
    /\ last.rt
    /\ last.n * requested_size < CeilChunks(last.n) * alloc_size
    /\ CeilChunks(last.n) >= 2
    /\ \E i \in DOMAIN FreeList : FreeList[i] < last.arg
    /\ \E i \in DOMAIN FreeList :
            FreeList[i] >= last.arg + CeilChunks(last.n) * alloc_size


\* the chunk slots of the blocks of the block list
Slots == UNION {BlockChunks(Blocks[i]) : i \in DOMAIN Blocks}

\* C37: in every reachable state of a pool whose regions are given back
\* the way they were taken, the chunk slots of the blocks of the block list
\* are the chunks of the free list together with the chunks the callers
\* hold, no chunk being both, and the blocks of the block list are the
\* blocks the system allocator has handed out
C37_Conservation ==
    /\ Slots = FreeSet \cup AllHeld
    /\ FreeSet \cap AllHeld = {}
    /\ Cardinality(FreeSet) = Len(FreeList)
    /\ Range(Blocks) = sys
    /\ Cardinality(sys) = Len(Blocks)

\* ordered_allocate(n) has made a second block, returned its first chunks
\* and put the rest of it into the free list
C37_Witness ==
    /\ last.op = "ordered_allocate_n"
    /\ last.ret # NULL
    /\ last.reqs # <<>>
    /\ Len(Blocks) >= 2
    /\ FreeSet # {}


\* the walk from p along the links of the free list comes to null within
\* fuel steps, every link being a word of the pool
RECURSIVE FreeEnds(_, _, _)
FreeEnds(m, p, fuel) ==
    IF p = NULL THEN TRUE
    ELSE IF fuel = 0 \/ p \notin DOMAIN m THEN FALSE
    ELSE FreeEnds(m, m[p], fuel - 1)

\* the same for the walk along the trailers of the blocks
RECURSIVE BlockEnds(_, _, _)
BlockEnds(m, p, fuel) ==
    IF ~valid(p) THEN TRUE
    ELSE IF fuel = 0 \/ ptr_next_ptr(p) \notin DOMAIN m
              \/ ptr_next_size(p) \notin DOMAIN m THEN FALSE
    ELSE BlockEnds(m, pod_next(m, p), fuel - 1)

\* C38: in every reachable state of a pool under valid use the free list
\* and the block list come to null after at most as many links as the
\* arena has words and visit no address twice, so that the walks of
\* find_prev, allocate_n, release_memory, purge_memory, is_from and the
\* ordered insertion of a block end
C38_Acyclic ==
    /\ FreeEnds(mem, first_, arena)
    /\ BlockEnds(mem, list_, arena)
    /\ Cardinality(FreeSet) = Len(FreeList)
    /\ Cardinality(Range(Blocks)) = Len(Blocks)

\* a pool with several free chunks that are not in address order and with
\* several blocks, after a deallocation
C38_Witness ==
    /\ last.op \in FreeOps
    /\ Len(FreeList) >= 2
    /\ ~Ascending(FreeList)
    /\ Len(Blocks) >= 2


\* the locations at which a thread waits for the mutex of its pool
Waiting == {"lock1", "lock2"}

\* no thread waits for a mutex it holds, and the holder of a mutex is a
\* thread that is at a step that waits for nothing
C39_State ==
    \A t \in Threads :
        /\ pc[t] \in Waiting => mu[tagof[t]] # t
        /\ \A g \in Tags :
                mu[g] = t => tagof[t] = g /\ pc[t] \in Critical

\* C39: in the thread-safe singleton no thread tries to take the mutex of
\* its pool while it holds it (the lock of get_pool is released before the
\* lock of the call is taken), the holder of a mutex can always go on, and
\* with a fair mutex every call of every thread returns
C39_Returns ==
    /\ [](C39_State)
    /\ \A t \in Threads : (pc[t] # "idle") ~> (pc[t] = "idle")

\* a thread waits for the lock of its call while the other thread is in a
\* call on the same pool
C39_Witness ==
    \E t \in Threads : \E u \in Threads \ {t} :
        /\ pc[t] = "lock2"
        /\ tagof[u] = tagof[t]
        /\ mu[tagof[t]] = u
        /\ pc[u] = "call"

====
